---- MODULE Spec2Model ----
(***************************************************************************)
(* Verification model of the CI/CD healing service.                        *)
(*                                                                         *)
(*   Spec       : one run of the healing pipeline                          *)
(*                (services/langgraph_pipeline.py), phase by phase, with   *)
(*                the outcomes of its collaborators (git, sandbox,         *)
(*                reasoner, credential broker) drawn from small sets.      *)
(*   LiveSpec   : Spec with weak fairness on every phase step.             *)
(*   BrokerSpec : the credential broker (services/github_app_service.py)   *)
(*                with its two caches, a clock and two concurrent callers. *)
(*   BranchSpec : make_branch_name as a function of the team and leader     *)
(*                labels, over all labels up to MaxLabelLen characters.     *)
(*   ClassifierSpec : classify_bug_type (services/bug_classifier.py) as a  *)
(*                function of error type, message and output.              *)
(*   CancelSpec : Spec, with the run's task cancelled at any await.        *)
(*   RunsSpec   : parallel runs and the directories their steps work in.   *)
(*   SinkSpec   : the event sink (services/websocket_manager.py) with two  *)
(*                run_ids and subscribers that come and go.                *)
(*   ScoreSpec  : calculate_score (services/results_generator.py) as a     *)
(*                function of wall time and commit count.                  *)
(*   ParserSpec : _parse_test_failures as a function of the runner output  *)
(*                and the repository path.                                 *)
(*   ApplySpec  : the loop body of apply_fix_node on one Fix.              *)
(*   HandlerSpec: Spec, with the exception handler of run_pipeline         *)
(*                failing to save its result.                              *)
(*   ProbeSpec  : detect_test_framework (services/test_discovery.py) as a  *)
(*                function of what the repository holds.                   *)
(***************************************************************************)
EXTENDS Integers, Sequences, FiniteSets, TLC

VARIABLES
    \* ---- PipelineState (langgraph_pipeline.py:70-116) --------------------
    phase,          \* the node the graph executes next, "END", "CRASHED",
                    \* "CANCELLED" or "PROPAGATED"
    repo_path,      \* "" until the clone succeeded
    status,
    error,          \* state["error"], a message (sequence of chunks)
    test_output,    \* the raw runner output, abstracted (see TestOutputs)
    all_passed,
    failures,
    fixes,
    commit_count,
    iteration,
    max_retries,
    results_json,   \* NoResult until a result artifact is built
    timeline,       \* state["timeline"], a list of events
    \* ---- what left the process -------------------------------------------
    sent,           \* the error texts in the payloads the latest node broadcast
    \* ---- history variables (not program state) ---------------------------
    last_exit,      \* exit code of the most recent test execution, -1 if none
    verify_count,   \* number of completed verify_node executions
    publish_attempted,  \* publish_node went past its "no fixes" guard
    pushed,         \* git push succeeded
    \* ---- GitHubAppService (github_app_service.py:42-76) ------------------
    app_configured, \* is_app_configured
    key_valid,      \* whether jwt.encode accepts the private key
    has_pat,        \* has_pat_fallback
    now,            \* wall clock, minutes
    token_cache,    \* _token_cache, for the one installation id
    installation_cache, \* _installation_cache, for the one owner/repo
    cpc,            \* per caller: position inside get_token_for_repo
    cinst,          \* per caller: the local installation_id
    cresult,        \* per caller: what get_token_for_repo returned or raised
    iat_ret,        \* history: the last return of get_installation_token
    \* ---- run_pipeline arguments (langgraph_pipeline.py:728-753) ----------
    team_name,      \* a label: a sequence of characters
    leader_name,
    branch_name,    \* <<>> until derived
    derivations,    \* history: how many times the branch name was derived
    \* ---- classify_bug_type arguments and result (bug_classifier.py:78-105)
    cls_error_type, \* a text: a sequence of words
    cls_message,
    cls_output,
    cls_result,     \* "" until classified
    \* ---- parallel runs (run_agent.py:69-90, langgraph_pipeline.py:745-776)
    run_phase,      \* per run: the node its graph executes next
    run_repo_path,  \* per run: state["repo_path"]
    run_dirs,       \* history, per run: the directories its steps worked in
    \* ---- ConnectionManager (websocket_manager.py:22-65) -----------------
    sink_conns,     \* _connections: per run_id a list of sockets (a missing
                    \* key reads as the empty list, lines 37 and 50)
    sink_socket,    \* per subscriber: "new", "open" or "closed"
    sink_run,       \* per subscriber: the run_id of its route, "" before
    sink_next,      \* the number of the next event the orchestrator submits
    sink_bcs,       \* the broadcast calls in progress
    sink_delivered, \* history, per subscriber: the events it received
    \* ---- calculate_score arguments and result (results_generator.py:17-45)
    score_time,     \* total_time_seconds, in whole seconds
    score_commits,  \* total_commits
    score,          \* the returned dict, NoScore until computed
    \* ---- _parse_test_failures arguments and result
    \*      (langgraph_pipeline.py:829-911)
    parse_output,   \* test_output, abstracted as the pipeline's
    parse_repo,     \* repo_path
    parse_failures, \* NotParsed until parsed
    \* ---- detect_test_framework argument and result
    \*      (test_discovery.py:52-120)
    probe_repo,     \* what the repository holds
    probe_result,   \* "" until probed
    \* ---- one pass of apply_fix_node's loop body over one Fix
    \*      (langgraph_pipeline.py:432-475)
    apply_rec,      \* the Fix: its status and whether it carries a diff
    apply_env,      \* what each step would do on this repository
    apply_tried,    \* the steps run, in order: "write", then strategies
    apply_done      \* the loop body has run

pipeVars == <<phase, repo_path, status, error, test_output, all_passed,
              failures, fixes, commit_count, iteration, max_retries,
              results_json, timeline, sent, last_exit, verify_count,
              publish_attempted, pushed>>

brokerVars == <<app_configured, key_valid, has_pat, now, token_cache,
                installation_cache, cpc, cinst, cresult, iat_ret>>

labelVars == <<team_name, leader_name, branch_name, derivations>>

classifierVars == <<cls_error_type, cls_message, cls_output, cls_result>>

runsVars == <<run_phase, run_repo_path, run_dirs>>

sinkVars == <<sink_conns, sink_socket, sink_run, sink_next, sink_bcs,
              sink_delivered>>

scoreVars == <<score_time, score_commits, score>>

parserVars == <<parse_output, parse_repo, parse_failures>>

probeVars == <<probe_repo, probe_result>>

applyVars == <<apply_rec, apply_env, apply_tried, apply_done>>

otherVars == <<classifierVars, runsVars, sinkVars, scoreVars, parserVars,
               probeVars, applyVars>>

vars == <<pipeVars, brokerVars, labelVars, otherVars>>

(***************************************************************************)
(* Bounds of the model.                                                    *)
(***************************************************************************)
MaxRetriesBound == 2    \* settings.MAX_RETRIES ranges over 0..MaxRetriesBound
MaxClock == 70          \* the clock stops advancing here (minutes)
MaxLabelLen == 2        \* team and leader labels have at most this many characters
TickStep == 5           \* the clock advances in steps of this many minutes

\* github_app_service.py: lifetime of an installation token (line 239) and
\* the margin taken off its expiry before caching (line 284), in minutes
TokenTTL == 60
SafetyMargin == 5

(***************************************************************************)
(* Messages.  A message is a sequence of chunks; a chunk is literal text   *)
(* or a credential value, with its length in characters.  Slicing and      *)
(* string replacement are modelled on chunks: a credential cut by a slice  *)
(* is no longer the credential.                                            *)
(***************************************************************************)
Lit(s, n) == [t |-> "lit", id |-> s, n |-> n]
Secret(s, n) == [t |-> "secret", id |-> s, n |-> n]

AppToken == Secret("installation_token", 40)
PatToken == Secret("GITHUB_TOKEN", 40)
RedactionMarker == Lit("<REDACTED_TOKEN>", 16)

RECURSIVE Clip(_, _)
\* Python's  msg[:k]
Clip(msg, k) ==
    IF msg = <<>> \/ k <= 0 THEN <<>>
    ELSE IF Head(msg).n <= k
         THEN <<Head(msg)>> \o Clip(Tail(msg), k - Head(msg).n)
         ELSE <<Lit("(cut)", k)>>

\* str.replace(token, "<REDACTED_TOKEN>") for every token in toks
Replace(msg, toks) ==
    [i \in 1..Len(msg) |-> IF msg[i] \in toks THEN RedactionMarker ELSE msg[i]]

HasSecret(msg) == \E i \in 1..Len(msg) : msg[i].t = "secret"

NoMessage == <<>>

(***************************************************************************)
(* Runner output.  The raw text is abstracted by what each extraction      *)
(* pattern finds in it:                                                    *)
(*   blank    : test_output.strip() is empty                               *)
(*   log      : the error frames LogParser.parse extracts, in order        *)
(*   jest     : the "●" blocks of the JS runner patterns, in order          *)
(*   eslint   : the lint rows under a file header, in order                *)
(*   file_ref : the first source-path-looking substring, <<>> if none      *)
(* A path is a sequence of segments; an absolute path starts with "/".     *)
(***************************************************************************)
RepoRoot == <<"/", "tmp", "repo-run">>
Unknown == <<"unknown">>

ErrA == [file |-> <<"/", "workspace", "src", "utils.py">>, line |-> 42,
         error_type |-> "AssertionError"]
ErrB == [file |-> <<"/", "tmp", "repo-run", "src", "app.py">>, line |-> 7,
         error_type |-> "TypeError"]
JestA == [file |-> <<"src", "App.test.js">>, line |-> 10, msg |-> "renders"]
LintA == [file |-> <<"src", "App.js">>, line |-> 3, rule |-> "no-unused-vars"]

Output(b, l, j, e, r) ==
    [blank |-> b, log |-> l, jest |-> j, eslint |-> e, file_ref |-> r]

OutEmpty == Output(TRUE, <<>>, <<>>, <<>>, <<>>)
OutNoise == Output(FALSE, <<>>, <<>>, <<>>, <<>>)
OutLog1 == Output(FALSE, <<ErrA>>, <<>>, <<>>, <<"src", "utils.py">>)
OutLog2 == Output(FALSE, <<ErrA, ErrB, ErrA>>, <<JestA>>, <<>>, <<>>)
OutJest == Output(FALSE, <<>>, <<JestA>>, <<>>, <<"src", "App.test.js">>)
OutLint == Output(FALSE, <<>>, <<>>, <<LintA>>, <<>>)

\* The outputs a test run of the pipeline model draws from
TestOutputs == {OutEmpty, OutNoise, OutLog2}

\* Exit codes of the test runner: 0, or non-zero (a failed command, a
\* timeout or an exception of the local fallback, lines 289-291).
ExitCodes == {0, 1}

IsPrefix(p, s) == Len(p) <= Len(s) /\ SubSeq(s, 1, Len(p)) = p

\* lines 851-857: make the path repo-relative, strip the sandbox mount
\* prefix, strip leading slashes.
NormalizePath(file_path, repo) ==
    LET rel == IF repo /= <<>> /\ IsPrefix(repo, file_path)
               THEN SubSeq(file_path, Len(repo) + 1, Len(file_path))
               ELSE file_path
        noslash == IF rel /= <<>> /\ Head(rel) = "/" THEN Tail(rel) ELSE rel
        mount == IF noslash /= <<>> /\ Head(noslash) \in {"workspace", "app"}
                    /\ Len(noslash) > 1
                 THEN Tail(noslash) ELSE noslash
    IN  mount

\* agents.agent_1_detective.log_parser.LogParser.parse
LogParserParse(out) == out.log

RECURSIVE DedupLog(_, _, _)
\* lines 847-885: one failure per distinct (file, line, error_type)
DedupLog(errs, seen, repo) ==
    IF errs = <<>> THEN <<>>
    ELSE LET err == Head(errs)
             file_path == NormalizePath(IF err.file = <<>> THEN Unknown
                                        ELSE err.file, repo)
             key == <<file_path, err.line, err.error_type>>
         IN  IF key \in seen
             THEN DedupLog(Tail(errs), seen, repo)
             ELSE <<[file |-> file_path, line |-> err.line, origin |-> "log"]>>
                  \o DedupLog(Tail(errs), seen \cup {key}, repo)

RECURSIVE ParseJestBlocks(_, _)
\* lines 914-1019, the "●" blocks
ParseJestBlocks(blocks, seen) ==
    IF blocks = <<>> THEN <<>>
    ELSE LET b == Head(blocks)
             file_path == NormalizePath(b.file, <<>>)
             key == <<file_path, b.line, b.msg>>
         IN  IF key \in seen
             THEN ParseJestBlocks(Tail(blocks), seen)
             ELSE <<[file |-> file_path, line |-> b.line, origin |-> "jest"]>>
                  \o ParseJestBlocks(Tail(blocks), seen \cup {key})

_parse_jest_failures(out) == ParseJestBlocks(out.jest, {})

RECURSIVE ParseLintRows(_, _)
\* lines 1022-1059
ParseLintRows(rows, seen) ==
    IF rows = <<>> THEN <<>>
    ELSE LET r == Head(rows)
             key == <<r.file, r.line, r.rule>>
         IN  IF key \in seen
             THEN ParseLintRows(Tail(rows), seen)
             ELSE <<[file |-> r.file, line |-> r.line, origin |-> "eslint"]>>
                  \o ParseLintRows(Tail(rows), seen \cup {key})

_parse_eslint_failures(out) == ParseLintRows(out.eslint, {})

\* line 899: the guard of the synthetic fallback
SyntheticGuard(fs, out) == fs = <<>> /\ ~out.blank

\* lines 829-911
_parse_test_failures(out, repo) ==
    LET f1 == DedupLog(LogParserParse(out), {}, repo)
        f2 == IF f1 = <<>> THEN _parse_jest_failures(out) ELSE f1
        f3 == IF f2 = <<>> THEN _parse_eslint_failures(out) ELSE f2
    IN  IF SyntheticGuard(f3, out)
        THEN <<[file |-> IF out.file_ref /= <<>> THEN out.file_ref ELSE Unknown,
                line |-> 0, origin |-> "synthetic"]>>
        ELSE f3

(***************************************************************************)
(* The pipeline: records and pure helpers.                                 *)
(***************************************************************************)
FixStatuses == {"pending", "generated", "applied", "apply_failed", "fixed",
                "unfixable", "error"}

\* What the reasoner call yields for one failure: a reply with a diff
\* block, the single token UNFIXABLE, another reply without a diff block (or
\* with an empty one), or an exception.
ReasonerOutcomes == {"diff", "unfixable", "nodiff", "raise"}

\* lines 1194-1224: the diff and the confidence read from a reply, the
\* confidence in hundredths (0.85 unless the reply is the token UNFIXABLE)
_parse_llm_fix_output(content) ==
    [diff |-> IF content = "diff" THEN "diff" ELSE "",
     confidence |-> IF content = "unfixable" THEN 0 ELSE 85]

\* a record that keeps the confidence read from the reply
ParsedConfidence(parsed) == parsed.confidence

\* lines 387-397 and 401-411: the confidence of a Fix without a diff
NoDiffConfidence(parsed) == 0

\* Which apply strategy succeeds first, if any, or an exception.
ApplyOutcomes == {"standard", "threeway", "manual", "none", "exception"}

\* a Fix that reports an exception of the reasoner call as unfixable
NewFixErrorAsUnfixable(failure, outcome) ==
    [file |-> failure.file, line_number |-> failure.line,
     diff |-> IF outcome = "diff" THEN "diff" ELSE "",
     root_cause |-> IF outcome = "raise" THEN "exception" ELSE "parsed",
     status |-> IF outcome = "diff" THEN "pending" ELSE "unfixable",
     confidence |-> IF outcome = "diff" THEN 85 ELSE 0]

\* lines 365-411: the Fix recorded for one failure; root_cause is the text
\* of the exception (line 411) or what the reply gave
NewFix(failure, outcome) ==
    LET parsed == _parse_llm_fix_output(outcome)
    IN  [file |-> failure.file, line_number |-> failure.line,
         diff |-> IF outcome = "raise" THEN "" ELSE parsed.diff,
         root_cause |-> IF outcome = "raise" THEN "exception" ELSE "parsed",
         status |-> CASE outcome = "raise" -> "error"
                      [] parsed.diff /= "" -> "pending"
                      [] OTHER -> "unfixable",
         confidence |-> IF outcome /= "raise" /\ parsed.diff /= ""
                        THEN parsed.confidence ELSE NoDiffConfidence(parsed)]

\* every Fix that carries a diff is attempted, whatever its status
AttemptedAnyStatus(fix) == fix.diff /= ""

\* lines 432-437: the fixes apply_fix_node attempts
Attempted(fix) == fix.status \in {"pending", "generated"} /\ fix.diff /= ""

\* an exception while applying leaves the Fix as it was
ApplyStatusKeptOnException(outcome) ==
    IF outcome \in {"standard", "threeway", "manual"} THEN "applied"
    ELSE IF outcome = "exception" THEN "pending"
    ELSE "apply_failed"

\* lines 439-472
ApplyStatus(outcome) ==
    IF outcome \in {"standard", "threeway", "manual"} THEN "applied"
    ELSE "apply_failed"

\* a VERIFY that promotes whatever it finds
PromoteAny(fix, passed) ==
    IF passed THEN [fix EXCEPT !.status = "fixed"] ELSE fix

\* lines 501-505: promotion after a passing verification
Promote(fix, passed) ==
    IF passed /\ fix.status = "applied" THEN [fix EXCEPT !.status = "fixed"]
    ELSE fix

\* a guard that looks at the presence of fixes, not at their status
HasAnyFix(fx) == Len(fx) > 0

\* lines 530, 611, 665: some fix is "fixed" or "applied"
HasApplied(fx) == \E i \in 1..Len(fx) : fx[i].status \in {"fixed", "applied"}

CountApplied(fx) == Cardinality({i \in 1..Len(fx) : fx[i].status \in {"fixed", "applied"}})

\* an edge that always asks for fixes
AlwaysHasFailures(passed) == "has_failures"

\* lines 650-656
has_failures(passed) == IF passed THEN "no_failures" ELSE "has_failures"

\* a budget test that is late by one round
ExhaustedLate(it, mr) == it > mr + 1

\* line 662: the retry budget is used up
Exhausted(it, mr) == it > mr

\* an edge that looks at the retry budget before it looks at the test result
ShouldRetryBudgetFirst(passed, it, mr, fx) ==
    IF it > mr
    THEN (IF \E i \in 1..Len(fx) : fx[i].status \in {"fixed", "applied"}
          THEN "publish" ELSE "finish")
    ELSE "retry"

\* an edge that drops partial fixes once the budget is used up
ShouldRetryNoPartial(passed, it, mr, fx) ==
    IF passed THEN "publish"
    ELSE IF it > mr THEN "finish"
    ELSE "retry"

\* lines 659-667
should_retry(passed, it, mr, fx) ==
    IF passed THEN "publish"
    ELSE IF Exhausted(it, mr)
         THEN (IF HasApplied(fx) THEN "publish" ELSE "finish")
         ELSE "retry"

\* a VERIFY that leaves the counter alone
SameIteration(it) == it

\* line 491
NextIteration(it) == it + 1

\* a verdict drawn from the parsed failures, not from the exit code
FinalStatusByFailures(passed, nfail) == IF nfail = 0 THEN "PASSED" ELSE "FAILED"

\* line 615
FinalStatus(passed, nfail) == IF passed THEN "PASSED" ELSE "FAILED"

\* a report of the raw counter
IterationsUsedRaw(it) == it

\* line 624
IterationsUsed(it) == it - 1

NoResult == [final_status |-> "NONE"]

\* results_generator.py:48-90, the fields the pipeline decides
build_results_json(fs, nfail, nfix, used, maxit, commits, fx, by) ==
    [final_status |-> fs, total_failures |-> nfail, total_fixes |-> nfix,
     iterations_used |-> used, max_iterations |-> maxit,
     total_commits |-> commits,
     fixes |-> [i \in 1..Len(fx) |-> fx[i].status], built_by |-> by]

(***************************************************************************)
(* Credentials and error texts of the git driver.                          *)
(***************************************************************************)
\* get_token_for_repo as the pipeline sees it: (token, method)
Resolutions == {[token |-> AppToken, method |-> "github_app"],
                [token |-> PatToken, method |-> "pat"]}

\* git's stderr: plain, or quoting the remote URL with its userinfo
GitStderr(tok) ==
    {<<Lit("fatal: repository not found", 27)>>,
     <<Lit("fatal: unable to access 'https://x-access-token:", 48), tok,
       Lit("@github.com/owner/repo/'", 24)>>}

\* git_service.py:256-263
_redact_token(message, extra) == Replace(message, {PatToken} \cup extra)

\* git_service.py:227-230
SmartCloneError(stderr, tok) ==
    <<Lit("Clone failed (method): ", 23)>>
        \o Clip(_redact_token(stderr, {tok}), 500)

\* git_service.py:95-103
PlainCloneError(stderr) ==
    <<Lit("Git clone failed: ", 18)>> \o Clip(_redact_token(stderr, {}), 500)

\* langgraph_pipeline.py:587-588
PushUrl(tok) ==
    <<Lit("https://x-access-token:", 23), tok, Lit("@github.com/owner/repo", 22)>>

\* langgraph_pipeline.py:815-826: the RuntimeError of a failed git command
GitFailure(args, stderr) ==
    <<Lit("git ", 4)>> \o args \o <<Lit(" failed: ", 9)>> \o Clip(stderr, 300)

\* langgraph_pipeline.py:597-600: what publish_node surfaces of an exception
PublishError(exc) == Clip(exc, 200)

(***************************************************************************)
(* The pipeline: one action per graph node (build_pipeline, lines 674-717).*)
(* A node reads the state, and its returned fields are merged into it.     *)
(***************************************************************************)
Callers == {"c1", "c2"}

NoCall == [at |-> "idle", since |-> 0]

\* GitHubAppService.__init__, lines 70-76: both caches empty
BrokerIdle ==
    /\ now = 0
    /\ token_cache = [present |-> FALSE, safe_expiry |-> 0, server_expiry |-> 0]
    /\ installation_cache = FALSE
    /\ cpc = [c \in Callers |-> NoCall]
    /\ cinst = [c \in Callers |-> FALSE]
    /\ cresult = [c \in Callers |-> [kind |-> "none"]]
    /\ iat_ret = [kind |-> "none"]

BrokerQuiet ==
    /\ app_configured = TRUE /\ key_valid = TRUE /\ has_pat = TRUE
    /\ BrokerIdle

(***************************************************************************)
(* Labels and the branch name.  A label is a sequence of characters; the   *)
(* characters stand for the classes the two patterns of make_branch_name   *)
(* and str.upper tell apart: a lower-case and an upper-case ASCII letter,   *)
(* a digit, white space, punctuation, the underscore, a non-ASCII letter    *)
(* ("e_acute", upper case "E_ACUTE") and a letter whose upper case is two   *)
(* characters ("sharp_s", upper case "SS").                                *)
(***************************************************************************)
Alphabet == {"a", "A", "7", " ", "-", "_", "e_acute", "sharp_s"}

Whitespace == {" "}

\* the characters of the alphabet, upper-cased, that [A-Z0-9] matches
AZ09 == {"A", "S", "7"}

RECURSIVE SeqsUpTo(_)
SeqsUpTo(n) ==
    IF n = 0 THEN {<<>>}
    ELSE LET shorter == SeqsUpTo(n - 1)
         IN  shorter \cup {Append(w, c) : w \in shorter, c \in Alphabet}

Labels == SeqsUpTo(MaxLabelLen)

\* str.upper, one character at a time
UpperChar(c) ==
    CASE c = "a" -> <<"A">>
      [] c = "e_acute" -> <<"E_ACUTE">>
      [] c = "sharp_s" -> <<"S", "S">>
      [] OTHER -> <<c>>

RECURSIVE Upper(_)
Upper(s) == IF s = <<>> THEN <<>> ELSE UpperChar(Head(s)) \o Upper(Tail(s))

RECURSIVE LStrip(_)
LStrip(s) ==
    IF s /= <<>> /\ Head(s) \in Whitespace THEN LStrip(Tail(s)) ELSE s

RECURSIVE RStrip(_)
RStrip(s) ==
    IF s /= <<>> /\ s[Len(s)] \in Whitespace
    THEN RStrip(SubSeq(s, 1, Len(s) - 1)) ELSE s

\* str.strip
Strip(s) == RStrip(LStrip(s))

RECURSIVE CollapseWhitespace(_)
\* re.sub(r"\s+", "_", s)
CollapseWhitespace(s) ==
    IF s = <<>> THEN <<>>
    ELSE IF Head(s) \in Whitespace
         THEN <<"_">> \o CollapseWhitespace(LStrip(s))
         ELSE <<Head(s)>> \o CollapseWhitespace(Tail(s))

\* re.sub(r"[^A-Z0-9]", "_", s)
ReplaceNonAZ09(s) == [i \in 1..Len(s) |-> IF s[i] \in AZ09 THEN s[i] ELSE "_"]

\* a sanitizer that only deals with white space
SanitizeWhitespaceOnly(s) == CollapseWhitespace(Upper(Strip(s)))

\* line 125
sanitize(s) == ReplaceNonAZ09(CollapseWhitespace(Upper(Strip(s))))

Suffix == <<"_", "A", "I", "_", "F", "i", "x">>

\* lines 123-126
make_branch_name(team, leader) ==
    sanitize(team) \o <<"_">> \o sanitize(leader) \o Suffix

\* The labels of the run the pipeline model follows
RunTeam == <<"a", "A", " ", "7">>
RunLeader == <<"A", "-", "a">>

\* run_pipeline, line 746
LabelsOfRun ==
    /\ team_name = RunTeam
    /\ leader_name = RunLeader
    /\ branch_name = make_branch_name(RunTeam, RunLeader)
    /\ derivations = 1

(***************************************************************************)
(* The bug classifier (services/bug_classifier.py).  A text is a sequence  *)
(* of words; a pattern of _MESSAGE_PATTERNS is the set of the words it     *)
(* finds (re.search, case-insensitive), and it finds them anywhere in the  *)
(* text.                                                                   *)
(***************************************************************************)
MaxTextLen == 2         \* an error message has at most this many words

\* bug_classifier.py, lines 12-19
BUG_TYPES == {"LINTING", "SYNTAX", "LOGIC", "TYPE_ERROR", "IMPORT", "INDENTATION"}

\* the error-type names of the model: keys of _ERROR_TYPE_MAP, and
\* "CustomError" and "PylintError", which are not keys
TypeNames == {"SyntaxError", "IndentationError", "TypeError", "ImportError",
              "LintError", "NameError", "TestFailure", "CustomError",
              "PylintError"}

\* the words of a message or an output: error-type names and phrases
Words == {"SyntaxError", "TypeError", "unexpected indent", "invalid syntax",
          "No module named", "not callable", "unused", "undefined", "hello"}

\* bug_classifier.py, lines 24-60 (the keys that are in TypeNames)
_ERROR_TYPE_MAP ==
    [n \in {"SyntaxError", "IndentationError", "TypeError", "ImportError",
            "LintError", "NameError", "TestFailure"} |->
        CASE n = "SyntaxError" -> "SYNTAX"
          [] n = "IndentationError" -> "INDENTATION"
          [] n = "TypeError" -> "TYPE_ERROR"
          [] n = "ImportError" -> "IMPORT"
          [] n = "LintError" -> "LINTING"
          [] n = "NameError" -> "LOGIC"
          [] n = "TestFailure" -> "LOGIC"]

\* bug_classifier.py, lines 62-75: per pattern, the words it finds
_MESSAGE_PATTERNS ==
    << [finds |-> {"unexpected indent", "IndentationError"},
        bug_type |-> "INDENTATION"],
       [finds |-> {"SyntaxError", "invalid syntax"},
        bug_type |-> "SYNTAX"],
       [finds |-> {"ImportError", "No module named"},
        bug_type |-> "IMPORT"],
       [finds |-> {"TypeError", "not callable"},
        bug_type |-> "TYPE_ERROR"],
       [finds |-> {"LintError", "PylintError", "unused"},
        bug_type |-> "LINTING"],
       [finds |-> {"NameError", "undefined"},
        bug_type |-> "LOGIC"] >>

\* pattern.search(text)
Search(pattern, text) == \E i \in 1..Len(text) : text[i] \in pattern.finds

\* bug_classifier.py, line 99: f"{error_type} {error_message} {test_output}"
Combined(error_type, error_message, output) ==
    error_type \o <<" ">> \o error_message \o <<" ">> \o output

\* bug_classifier.py, lines 100-105: the first pattern that finds
\* something, else the fallback
FirstPattern(combined) ==
    LET hits == {i \in 1..Len(_MESSAGE_PATTERNS) :
                    Search(_MESSAGE_PATTERNS[i], combined)}
    IN  IF hits = {} THEN "LOGIC"
        ELSE _MESSAGE_PATTERNS[CHOOSE i \in hits : \A j \in hits : i <= j].bug_type

\* the patterns consulted before the table
ClassifyPatternsFirst(error_type, error_message, output) ==
    LET normalized == Strip(error_type)
        combined == Combined(error_type, error_message, output)
    IN  IF \E i \in 1..Len(_MESSAGE_PATTERNS) : Search(_MESSAGE_PATTERNS[i], combined)
        THEN FirstPattern(combined)
        ELSE IF Len(normalized) = 1 /\ normalized[1] \in DOMAIN _ERROR_TYPE_MAP
             THEN _ERROR_TYPE_MAP[normalized[1]]
             ELSE "LOGIC"

\* bug_classifier.py, lines 78-105
classify_bug_type(error_type, error_message, output) ==
    LET normalized == Strip(error_type)
    IN  IF Len(normalized) = 1 /\ normalized[1] \in DOMAIN _ERROR_TYPE_MAP
        THEN _ERROR_TYPE_MAP[normalized[1]]
        ELSE FirstPattern(Combined(error_type, error_message, output))

\* the error types a caller passes: nothing, a name, a name with
\* surrounding whitespace
ErrorTypes ==
    {<<>>} \cup {<<n>> : n \in TypeNames}
           \cup {<<" ", n>> : n \in TypeNames}
           \cup {<<n, " ">> : n \in TypeNames}

RECURSIVE TextsUpTo(_)
TextsUpTo(n) ==
    IF n = 0 THEN {<<>>}
    ELSE LET shorter == TextsUpTo(n - 1)
         IN  shorter \cup {Append(t, w) : t \in shorter, w \in Words}

Messages == TextsUpTo(MaxTextLen)

OutputTexts == TextsUpTo(1)

\* no classification in progress
ClassifierQuiet ==
    /\ cls_error_type = <<>>
    /\ cls_message = <<>>
    /\ cls_output = <<>>
    /\ cls_result = ""

(***************************************************************************)
(* Parallel runs: each POST /run-agent starts run_pipeline as a background *)
(* task under a fresh uuid4 (api/routes/run_agent.py:69), and the tasks    *)
(* interleave at their awaits.                                             *)
(***************************************************************************)
Runs == {"r1", "r2", "r3"}

\* git_service.py, line 204: base_clone_dir / f"repo-{incident_id}"
CloneDir(r) == <<"repo-", r>>

\* Path(repo_path), and cwd=repo_path: Path("") is the process's current
\* directory
WorkDir(path) == IF path = <<>> THEN <<".">> ELSE path

\* run_pipeline, lines 745-772, for every run
RunsStarted ==
    /\ run_phase = [r \in Runs |-> "clone"]
    /\ run_repo_path = [r \in Runs |-> <<>>]
    /\ run_dirs = [r \in Runs |-> {}]

(***************************************************************************)
(* The event sink (services/websocket_manager.py) for one run: the         *)
(* orchestrator submits events 1, 2, ... in pipeline order, each by an     *)
(* awaited call of broadcast.                                              *)
(***************************************************************************)
MaxEvents == 3          \* the run submits at most this many events

Subscribers == {"s1", "s2"}

\* the run_ids clients subscribe to and pipeline tasks broadcast under
SinkRuns == {"run-a", "run-b"}

\* websocket_manager.py, lines 22-25
SinkIdle ==
    /\ sink_conns = [r \in SinkRuns |-> <<>>]
    /\ sink_socket = [s \in Subscribers |-> "new"]
    /\ sink_run = [s \in Subscribers |-> ""]
    /\ sink_next = 1
    /\ sink_bcs = {}
    /\ sink_delivered = [s \in Subscribers |-> <<>>]

\* list.remove(ws)
RECURSIVE Remove(_, _)
Remove(list, ws) ==
    IF list = <<>> THEN <<>>
    ELSE IF Head(list) = ws THEN Tail(list)
    ELSE <<Head(list)>> \o Remove(Tail(list), ws)

\* a snapshot of every registered socket, whatever its run_id
SnapshotAll(conns, r) == conns["run-a"] \o conns["run-b"]

\* lines 49-50: list(self._connections.get(run_id, []))
Snapshot(conns, r) == conns[r]

\* lines 59-65 without the pruning
PruneNone(conns, dead) == conns

\* lines 59-65: every socket whose send raised is removed from the list
Prune(conns, dead) == SelectSeq(conns, LAMBDA s : s \notin dead)

\* a broadcast is started while earlier ones are still sending
SubmitAnytime(bcs) == TRUE

\* every call of broadcast is awaited by the one task of the run
\* (langgraph_pipeline.py:139-140 and every other call site): the next
\* call starts after the previous one has returned
MaySubmit(bcs) == bcs = {}

(***************************************************************************)
(* The score (services/results_generator.py).  The wall time is a float;   *)
(* the model takes its whole seconds, which decide "< 300" the same way.   *)
(***************************************************************************)
MaxWallTime == 310      \* a run lasts at most this many seconds
MaxCommits == 80        \* a run makes at most this many commits

\* results_generator.py, lines 33-36
BaseScore == 100
SpeedBonus == 10
SpeedLimit == 300
FreeCommits == 20
PenaltyPerCommit == 2

NoScore == [final |-> -1]

\* Python's max
max(a, b) == IF a >= b THEN a ELSE b

\* a score that may go below zero
ScoreWithoutFloor(total_time_seconds, total_commits) ==
    LET speed_bonus == IF total_time_seconds < SpeedLimit THEN SpeedBonus ELSE 0
        efficiency_penalty == max(0, total_commits - FreeCommits) * PenaltyPerCommit
    IN  [base |-> BaseScore, speed_bonus |-> speed_bonus,
         efficiency_penalty |-> efficiency_penalty,
         total_commits |-> total_commits,
         final |-> BaseScore + speed_bonus - efficiency_penalty]

\* results_generator.py, lines 17-45
calculate_score(total_time_seconds, total_commits) ==
    LET base == BaseScore
        speed_bonus == IF total_time_seconds < SpeedLimit THEN SpeedBonus ELSE 0
        extra_commits == max(0, total_commits - FreeCommits)
        efficiency_penalty == extra_commits * PenaltyPerCommit
        final == max(0, base + speed_bonus - efficiency_penalty)
    IN  [base |-> base, speed_bonus |-> speed_bonus,
         efficiency_penalty |-> efficiency_penalty,
         total_commits |-> total_commits, final |-> final]

ScoreQuiet ==
    /\ score_time = 0
    /\ score_commits = 0
    /\ score = NoScore

(***************************************************************************)
(* The failure parser as a function of the runner output and the          *)
(* repository path.                                                        *)
(***************************************************************************)
\* frames LogParser extracts: a file outside the repository and outside the
\* sandbox mount, a file under /app/, a frame without a file
ErrC == [file |-> <<"/", "usr", "lib", "python3", "site.py">>, line |-> 88,
         error_type |-> "ImportError"]
ErrD == [file |-> <<"/", "app", "src", "main.py">>, line |-> 5,
         error_type |-> "NameError"]
ErrE == [file |-> <<>>, line |-> 0, error_type |-> "TestFailure"]

\* a "●" block whose location is a file under /workspace/
JestB == [file |-> <<"/", "workspace", "src", "App.test.js">>, line |-> 12,
          msg |-> "adds"]

Frames == {ErrA, ErrB, ErrC, ErrD, ErrE}

\* the outputs the parser is given: up to two frames, up to one block, up to
\* one lint row, or nothing a parser recognises
ParserOutputs ==
    {OutEmpty, OutNoise, OutLog1, OutLog2, OutJest, OutLint}
    \cup {Output(FALSE, <<e>>, j, <<>>, <<>>) :
             e \in Frames, j \in {<<>>, <<JestA>>, <<JestB>>}}
    \cup {Output(FALSE, <<e1, e2>>, <<>>, <<>>, <<>>) : e1 \in Frames, e2 \in Frames}
    \cup {Output(FALSE, <<>>, <<j>>, l, <<>>) :
             j \in {JestA, JestB}, l \in {<<>>, <<LintA>>}}

NotParsed == <<[file |-> <<>>, line |-> -1, origin |-> "none"]>>

ParserQuiet ==
    /\ parse_output = OutEmpty
    /\ parse_repo = <<>>
    /\ parse_failures = NotParsed

(***************************************************************************)
(* The framework probe (services/test_discovery.py) as a function of what  *)
(* the repository holds.                                                   *)
(***************************************************************************)
Frameworks == {"pytest", "unittest", "jest", "mocha", "vitest", "go_test",
               "cargo_test"}

\* _FRAMEWORK_FILES, lines 14-22, in the order the loops of lines 64-65
\* visit it; one file name for each of the jest, mocha and vitest families
FrameworkFiles ==
    << <<"pytest", "pytest.ini">>, <<"pytest", "setup.cfg">>,
       <<"pytest", "pyproject.toml">>, <<"pytest", "conftest.py">>,
       <<"jest", "jest.config.js">>, <<"mocha", ".mocharc.yml">>,
       <<"vitest", "vitest.config.ts">>, <<"go_test", "go.mod">>,
       <<"cargo_test", "Cargo.toml">> >>

\* _FRAMEWORK_DEPS, lines 24-29, in iteration order
FrameworkDeps == <<"pytest", "jest", "mocha", "vitest">>

\* What a repository holds, as far as the probe looks:
\*   configs          : the config files at its root
\*   pyproject_pytest : pyproject.toml's text contains "pytest"
\*   package_json     : "absent", "invalid" (not JSON), "not_object" (JSON
\*                      that is not an object, e.g. a list), or "object"
\*   deps             : the keys of dependencies and devDependencies
\*   py_tests, js_tests, go_tests : test files of that kind exist
ProbeRepos ==
    [configs : SUBSET {"pyproject.toml", "jest.config.js", "vitest.config.ts",
                       "go.mod", "Cargo.toml"},
     pyproject_pytest : BOOLEAN,
     package_json : {"absent", "invalid", "not_object"},
     deps : {{}},
     py_tests : BOOLEAN, js_tests : BOOLEAN, go_tests : BOOLEAN]
    \cup
    [configs : SUBSET {"pyproject.toml", "jest.config.js", "vitest.config.ts",
                       "go.mod", "Cargo.toml"},
     pyproject_pytest : BOOLEAN,
     package_json : {"object"},
     deps : SUBSET {"pytest", "mocha", "vitest"},
     py_tests : BOOLEAN, js_tests : BOOLEAN, go_tests : BOOLEAN]

\* the call does not return: pkg.get on a value that is not a dict raises
\* AttributeError, which line 88 does not catch
ProbeRaised == "AttributeError"

RECURSIVE FirstConfig(_, _)
\* lines 64-75: the framework of the first config file that exists, "" if
\* none; pyproject.toml counts only if its text mentions pytest
FirstConfig(files, repo) ==
    IF files = <<>> THEN ""
    ELSE LET framework == Head(files)[1]
             cfg == Head(files)[2]
         IN  IF cfg \in repo.configs
                /\ (cfg = "pyproject.toml" => repo.pyproject_pytest)
             THEN framework
             ELSE FirstConfig(Tail(files), repo)

RECURSIVE FirstDep(_, _)
\* lines 84-87
FirstDep(names, all_deps) ==
    IF names = <<>> THEN ""
    ELSE IF Head(names) \in all_deps THEN Head(names)
    ELSE FirstDep(Tail(names), all_deps)

\* lines 92-120: the scans for test files and the fallback
ByTestFiles(repo) ==
    IF repo.py_tests THEN "pytest"
    ELSE IF repo.js_tests THEN "jest"
    ELSE IF repo.go_tests THEN "go_test"
    ELSE IF "Cargo.toml" \in repo.configs THEN "cargo_test"
    ELSE "pytest"

\* detect_test_framework, lines 52-120
detect_test_framework(repo) ==
    LET by_config == FirstConfig(FrameworkFiles, repo)
        by_dep == IF repo.package_json = "object"
                  THEN FirstDep(FrameworkDeps, repo.deps) ELSE ""
    IN  IF by_config /= "" THEN by_config
        ELSE IF repo.package_json = "not_object" THEN ProbeRaised
        ELSE IF by_dep /= "" THEN by_dep
        ELSE ByTestFiles(repo)

QuietRepo ==
    [configs |-> {}, pyproject_pytest |-> FALSE, package_json |-> "absent",
     deps |-> {}, py_tests |-> FALSE, js_tests |-> FALSE, go_tests |-> FALSE]

ProbeQuiet ==
    /\ probe_repo = QuietRepo
    /\ probe_result = ""

(***************************************************************************)
(* The body of apply_fix_node's loop for one Fix (lines 432-475).          *)
(***************************************************************************)
Strategies == <<"standard", "threeway", "manual">>

\* what a step does: git apply exits 0 / _apply_diff_manually returns True
\* ("ok"), exits non-zero / returns False ("fail"), or raises (a timeout, an
\* OS error)
StepResults == {"ok", "fail", "raise"}

\* write: patch_file.write_text (line 443) returns or raises
ApplyEnvs ==
    [write : {"ok", "raise"}, standard : StepResults, threeway : StepResults,
     manual : StepResults]

\* steps: the patch file written (line 443), then the strategies run
Ran(tried, st) == [tried |-> <<"write">> \o tried, status |-> st]

\* a loop body that goes on to the next strategy when one raises
ApplyPastRaise(env) ==
    IF env.write = "raise" THEN Ran(<<>>, "apply_failed")
    ELSE IF env.standard = "ok" THEN Ran(<<"standard">>, "applied")
    ELSE IF env.threeway = "ok" THEN Ran(<<"standard", "threeway">>, "applied")
    ELSE IF env.manual = "ok" THEN Ran(Strategies, "applied")
    ELSE Ran(Strategies, "apply_failed")

\* lines 441-472: the steps run and the status the Fix is given
ApplyStrategies(env) ==
    IF env.write = "raise" THEN Ran(<<>>, "apply_failed")
    ELSE IF env.standard = "raise" THEN Ran(<<"standard">>, "apply_failed")
    ELSE IF env.standard = "ok" THEN Ran(<<"standard">>, "applied")
    ELSE IF env.threeway = "raise"
    THEN Ran(<<"standard", "threeway">>, "apply_failed")
    ELSE IF env.threeway = "ok" THEN Ran(<<"standard", "threeway">>, "applied")
    ELSE IF env.manual = "ok" THEN Ran(Strategies, "applied")
    ELSE Ran(Strategies, "apply_failed")

QuietEnv == [write |-> "ok", standard |-> "ok", threeway |-> "ok",
             manual |-> "ok"]

ApplyQuiet ==
    /\ apply_rec = [status |-> "pending", diff |-> ""]
    /\ apply_env = QuietEnv
    /\ apply_tried = <<>>
    /\ apply_done = FALSE

\* no second specification's variables move
OthersQuiet ==
    /\ ClassifierQuiet /\ RunsStarted /\ SinkIdle /\ ScoreQuiet
    /\ ParserQuiet /\ ProbeQuiet /\ ApplyQuiet

\* the list is replaced by one that holds the new event alone
RestartTimeline(tl, event, it) == <<[state |-> event, iteration |-> it]>>

\* _add_timeline, lines 805-812, called in a node whose state["iteration"]
\* is it
_add_timeline(tl, event, it) == Append(tl, [state |-> event, iteration |-> it])

\* run_pipeline, lines 745-772
PipeInit ==
    /\ phase = "clone"
    /\ repo_path = <<>>
    /\ status = "started"
    /\ error = NoMessage
    /\ test_output = OutEmpty
    /\ all_passed = FALSE
    /\ failures = <<>>
    /\ fixes = <<>>
    /\ commit_count = 0
    /\ iteration = 1
    /\ max_retries \in 0..MaxRetriesBound
    /\ results_json = NoResult
    /\ timeline = <<>>
    /\ sent = {}
    /\ last_exit = -1
    /\ verify_count = 0
    /\ publish_attempted = FALSE
    /\ pushed = FALSE

Init == PipeInit /\ BrokerQuiet /\ LabelsOfRun /\ OthersQuiet

\* clone_node, lines 133-160, with GitService.clone_with_smart_auth
\* (git_service.py:158-245) and clone_repository (git_service.py:39-130)
CloneOk ==
    /\ phase = "clone"
    /\ timeline' = _add_timeline(timeline, "CLONING", iteration)
    /\ UNCHANGED <<brokerVars, labelVars, otherVars>>
    /\ repo_path' = RepoRoot
    /\ status' = "cloned"
    /\ phase' = "detect_framework"
    /\ sent' = {}
    /\ UNCHANGED <<error, test_output, all_passed, failures, fixes,
                   commit_count, iteration, max_retries, results_json,
                   last_exit, verify_count, publish_attempted, pushed>>

CloneFailed ==
    /\ phase = "clone"
    /\ timeline' = _add_timeline(timeline, "CLONING", iteration)
    /\ UNCHANGED <<brokerVars, labelVars, otherVars>>
    /\ \E msg \in
          \* the authenticated clone exits non-zero
          {SmartCloneError(e[2], e[1].token) :
              e \in {x \in Resolutions \X (GitStderr(AppToken) \cup GitStderr(PatToken)) :
                        x[2] \in GitStderr(x[1].token)}}
          \* the authenticated path raised; the plain clone (fallback secret
          \* in the URL) exits non-zero, times out or raises
          \cup {PlainCloneError(se) : se \in GitStderr(PatToken)}
          \cup {<<Lit("Git clone timed out", 19)>>,
                <<Lit("Clone error: [Errno 2] No such file or directory", 48)>>} :
          /\ sent' = {msg}
          /\ error' = <<Lit("Clone failed: ", 14)>> \o msg
    /\ status' = "failed"
    /\ phase' = "detect_framework"
    /\ UNCHANGED <<repo_path, test_output, all_passed, failures, fixes,
                   commit_count, iteration, max_retries, results_json,
                   last_exit, verify_count, publish_attempted, pushed>>

\* detect_framework_node, lines 163-179
DetectFramework ==
    /\ phase = "detect_framework"
    /\ timeline' = IF repo_path = <<>> THEN timeline
                   ELSE _add_timeline(timeline, "FRAMEWORK_DETECTED", iteration)
    /\ UNCHANGED <<brokerVars, labelVars, otherVars>>
    /\ IF repo_path = <<>>
       THEN status' = "failed" /\ error' = <<Lit("No repository path", 18)>>
       ELSE UNCHANGED <<status, error>>
    /\ phase' = "install_deps"
    /\ sent' = {}
    /\ UNCHANGED <<repo_path, test_output, all_passed, failures, fixes,
                   commit_count, iteration, max_retries, results_json,
                   last_exit, verify_count, publish_attempted, pushed>>

\* install_deps_node, lines 182-241: its outcome is not read by any edge
InstallDeps ==
    /\ phase = "install_deps"
    /\ \E skipped \in BOOLEAN :
          timeline' = IF skipped THEN timeline
                      ELSE _add_timeline(timeline, "DEPS_INSTALLED", iteration)
    /\ UNCHANGED <<brokerVars, labelVars, otherVars>>
    /\ phase' = "run_tests"
    /\ sent' = {}
    /\ UNCHANGED <<repo_path, status, error, test_output, all_passed, failures,
                   fixes, commit_count, iteration, max_retries, results_json,
                   last_exit, verify_count, publish_attempted, pushed>>

\* run_tests_node, lines 244-296
RunTests ==
    /\ phase = "run_tests"
    /\ timeline' = _add_timeline(timeline, "TESTS_RUN", iteration)
    /\ UNCHANGED <<brokerVars, labelVars, otherVars>>
    /\ \E out \in TestOutputs, code \in ExitCodes :
          /\ test_output' = out
          /\ all_passed' = (code = 0)
          /\ last_exit' = code
    /\ phase' = "analyze_failures"
    /\ sent' = {}
    /\ UNCHANGED <<repo_path, status, error, failures, fixes, commit_count,
                   iteration, max_retries, results_json, verify_count,
                   publish_attempted, pushed>>

\* analyze_failures_node, lines 299-321, and the edge has_failures
AnalyzeFailures ==
    /\ phase = "analyze_failures"
    /\ timeline' = _add_timeline(timeline, "FAILURES_ANALYZED", iteration)
    /\ UNCHANGED <<brokerVars, labelVars, otherVars>>
    /\ failures' = _parse_test_failures(test_output, repo_path)
    /\ phase' = IF has_failures(all_passed) = "no_failures"
                THEN "generate_results" ELSE "generate_fix"
    /\ sent' = {}
    /\ UNCHANGED <<repo_path, status, error, test_output, all_passed, fixes,
                   commit_count, iteration, max_retries, results_json,
                   last_exit, verify_count, publish_attempted, pushed>>

\* generate_fix_node, lines 324-415
GenerateFix ==
    /\ phase = "generate_fix"
    /\ timeline' = IF failures = <<>> THEN timeline
                   ELSE _add_timeline(timeline, "FIXES_GENERATED", iteration)
    /\ UNCHANGED <<brokerVars, labelVars, otherVars>>
    /\ \E outs \in [1..Len(failures) -> ReasonerOutcomes] :
          fixes' = fixes \o [i \in 1..Len(failures) |-> NewFix(failures[i], outs[i])]
    /\ phase' = "apply_fix"
    /\ sent' = {}
    /\ UNCHANGED <<repo_path, status, error, test_output, all_passed, failures,
                   commit_count, iteration, max_retries, results_json,
                   last_exit, verify_count, publish_attempted, pushed>>

\* apply_fix_node, lines 418-478
ApplyFix ==
    /\ phase = "apply_fix"
    /\ UNCHANGED timeline
    /\ UNCHANGED <<brokerVars, labelVars, otherVars>>
    /\ LET todo == {i \in 1..Len(fixes) : Attempted(fixes[i])}
       IN  \E outs \in [todo -> ApplyOutcomes] :
              fixes' = [i \in 1..Len(fixes) |->
                          IF i \in todo
                          THEN [fixes[i] EXCEPT !.status = ApplyStatus(outs[i])]
                          ELSE fixes[i]]
    /\ phase' = "verify"
    /\ sent' = {}
    /\ UNCHANGED <<repo_path, status, error, test_output, all_passed, failures,
                   commit_count, iteration, max_retries, results_json,
                   last_exit, verify_count, publish_attempted, pushed>>

\* verify_node, lines 481-513, and the edge should_retry
Verify ==
    /\ phase = "verify"
    /\ timeline' = _add_timeline(_add_timeline(timeline, "TESTS_RUN", iteration),
                                 "VERIFICATION", iteration)
    /\ UNCHANGED <<brokerVars, labelVars, otherVars>>
    /\ \E out \in TestOutputs, code \in ExitCodes :
          LET passed == (code = 0)
              fx == [i \in 1..Len(fixes) |-> Promote(fixes[i], passed)]
              it == NextIteration(iteration)
              edge == should_retry(passed, it, max_retries, fx)
          IN  /\ test_output' = out
              /\ all_passed' = passed
              /\ last_exit' = code
              /\ fixes' = fx
              /\ iteration' = it
              /\ phase' = CASE edge = "retry" -> "analyze_failures"
                            [] edge = "publish" -> "publish"
                            [] OTHER -> "generate_results"
    /\ verify_count' = verify_count + 1
    /\ sent' = {}
    /\ UNCHANGED <<repo_path, status, error, failures, commit_count,
                   max_retries, results_json, publish_attempted, pushed>>

\* What happens inside publish_node's try block (lines 541-596): a git
\* command before the push fails (config, checkout, add, commit), nothing
\* is staged, the push fails, or the push succeeds.
PublishOutcomes == {"git_failed", "nothing_staged", "push_failed", "pushed"}

\* The commit of line 567 was created
Committed(o) == o \in {"push_failed", "pushed"}

PlainStderr == <<Lit("fatal: repository not found", 27)>>

\* The exception publish_node catches at line 597, for a failing outcome
PublishException(o, tok) ==
    IF o = "git_failed"
    THEN GitFailure(<<Lit("<config|checkout|add|commit> ...", 32)>>, PlainStderr)
    ELSE GitFailure(<<Lit("push ", 5)>> \o PushUrl(tok)
                        \o <<Lit(" BRANCH --force", 15)>>, PlainStderr)

\* an edge from publish back into the loop
BackToVerify == "verify"

\* build_pipeline, line 714: the edge that leaves publish
AfterPublish == "generate_results"

\* publish_node, lines 516-537: nothing to commit
PublishSkip ==
    /\ phase = "publish"
    /\ timeline' = _add_timeline(timeline, "PUBLISH_SKIPPED", iteration)
    /\ UNCHANGED <<brokerVars, labelVars, otherVars>>
    /\ ~HasApplied(fixes)
    /\ status' = "completed"
    /\ phase' = AfterPublish
    /\ sent' = {}
    /\ UNCHANGED <<repo_path, error, test_output, all_passed, failures, fixes,
                   commit_count, iteration, max_retries, results_json,
                   last_exit, verify_count, publish_attempted, pushed>>

\* publish_node, lines 539-600: configure, branch, stage, commit, push
PublishTry ==
    /\ phase = "publish"
    /\ UNCHANGED <<brokerVars, labelVars, otherVars>>
    /\ HasApplied(fixes)
    /\ publish_attempted' = TRUE
    /\ \E o \in PublishOutcomes, r \in Resolutions :
          /\ commit_count' = IF Committed(o) THEN commit_count + 1 ELSE commit_count
          /\ pushed' = (o = "pushed")
          /\ timeline' = IF o = "pushed"
                         THEN _add_timeline(timeline, "PUBLISHED", iteration)
                         ELSE timeline
          /\ IF o \in {"nothing_staged", "pushed"}
             THEN /\ status' = "completed"
                  /\ error' = error /\ sent' = {}
             ELSE LET exc == PublishException(o, r.token)
                  IN  /\ status' = "failed"
                      /\ error' = PublishError(exc)
                      /\ sent' = {PublishError(exc)}
    /\ phase' = AfterPublish
    /\ UNCHANGED <<repo_path, test_output, all_passed, failures, fixes,
                   iteration, max_retries, results_json, last_exit,
                   verify_count>>

\* generate_results_node, lines 603-643
GenerateResults ==
    /\ phase = "generate_results"
    /\ UNCHANGED timeline
    /\ UNCHANGED <<brokerVars, labelVars, otherVars>>
    /\ results_json' = build_results_json(
                          FinalStatus(all_passed, Len(failures)),
                          Len(failures), CountApplied(fixes),
                          IterationsUsed(iteration), max_retries,
                          commit_count, fixes, "generate_results")
    /\ status' = "completed"
    /\ phase' = "END"
    /\ sent' = {}
    /\ UNCHANGED <<repo_path, error, test_output, all_passed, failures, fixes,
                   commit_count, iteration, max_retries, last_exit,
                   verify_count, publish_attempted, pushed>>

\* The nodes with a call outside any try block; publish_node catches
\* every exception of its git work (lines 541, 597).
CanRaise == {"clone", "detect_framework", "install_deps", "run_tests",
             "analyze_failures", "generate_fix", "apply_fix", "verify",
             "generate_results"}

\* run_pipeline, lines 774-798: a node raised, the graph invocation aborts
\* and the result is built from the arguments alone.
Crash ==
    /\ phase \in CanRaise
    /\ UNCHANGED timeline
    /\ UNCHANGED <<brokerVars, labelVars, otherVars>>
    /\ results_json' = build_results_json("FAILED", 0, 0, 0, max_retries, 0,
                                          <<>>, "run_pipeline")
    /\ sent' = {Clip(<<Lit("exception text", 14)>>, 300)}
    /\ phase' = "CRASHED"
    /\ UNCHANGED <<repo_path, status, error, test_output, all_passed, failures,
                   fixes, commit_count, iteration, max_retries, last_exit,
                   verify_count, publish_attempted, pushed>>

Next ==
    \/ CloneOk
    \/ CloneFailed
    \/ DetectFramework
    \/ InstallDeps
    \/ RunTests
    \/ AnalyzeFailures
    \/ GenerateFix
    \/ ApplyFix
    \/ Verify
    \/ PublishSkip
    \/ PublishTry
    \/ GenerateResults
    \/ Crash

Spec == Init /\ [][Next]_vars

\* The graph runs the next node as long as there is one.
LiveSpec == Spec /\ WF_vars(Next)

(***************************************************************************)
(* The credential broker.  The service runs on one event loop: the code    *)
(* between two awaits is one step.  A caller is inside get_token_for_repo  *)
(* at "finding" (awaiting the GET of find_installation_for_repo) or at     *)
(* "minting" (awaiting the POST of get_installation_token).                *)
(***************************************************************************)
\* the cache keeps the server's expiry as it came
RawExpiry(expires_at) == expires_at

\* line 284
SafeExpiry(expires_at) == expires_at - SafetyMargin

\* lines 283-288: the cache entry written after a mint
CacheEntry(expires_at) ==
    [present |-> TRUE, safe_expiry |-> SafeExpiry(expires_at),
     server_expiry |-> expires_at]

\* a cached token is handed out whatever its age
CacheHitAnyAge(cache, t) == cache.present

\* lines 248-254
CacheHit(cache, t) == cache.present /\ t < cache.safe_expiry

\* lines 399-407
Fallback(pat, iat) ==
    IF pat THEN [kind |-> "token", token |-> PatToken, method |-> "pat", iat |-> iat]
    ELSE [kind |-> "raised", by |-> "no_credentials", iat |-> iat]

\* the fallback secret is preferred whenever it is configured
PatFirst(iat, pat) ==
    IF pat THEN [kind |-> "token", token |-> PatToken, method |-> "pat", iat |-> iat]
    ELSE IF iat THEN [kind |-> "token", token |-> AppToken, method |-> "github_app",
                      iat |-> iat]
    ELSE [kind |-> "raised", by |-> "no_credentials", iat |-> iat]

\* lines 386-407: what get_token_for_repo returns once the app path has
\* yielded a token (iat) or not
Resolve(iat, pat) ==
    IF iat THEN [kind |-> "token", token |-> AppToken, method |-> "github_app",
                 iat |-> iat]
    ELSE Fallback(pat, iat)

\* The responses to the GET of lines 331-338 and to the POST of lines 260-267;
\* "error" is a transport failure or timeout.
FindResponses == {"200", "404", "500", "error"}
MintResponses == {"201", "500", "error"}

\* a failed mint empties the token cache
TokenCacheClearedOnFailure(cache, r, entry) ==
    IF r = "201" THEN entry
    ELSE [present |-> FALSE, safe_expiry |-> 0, server_expiry |-> 0]

\* get_installation_token, lines 269-289: the token cache after reply r;
\* the only write follows the status check and the parsing of the reply
TokenCacheAfter(cache, r, entry) == IF r = "201" THEN entry ELSE cache

\* every reply leaves a binding in the cache
CacheEveryReply(cache, r) == TRUE

\* find_installation_for_repo, lines 340-366: the installation cache after
\* reply r
InstallationCacheAfter(cache, r) == IF r = "200" THEN TRUE ELSE cache

\* httpx timeout of 30 s (lines 330, 259): a response arrives before the
\* clock has advanced by more than one step
InTime(since) == now <= since + TickStep

\* get_installation_token up to its await (lines 247-257), entered by caller
\* c from get_token_for_repo line 389 with the installation id at hand
EnterInstallationToken(c) ==
    IF CacheHit(token_cache, now)
    THEN /\ iat_ret' = [kind |-> "token", at |-> now, from |-> "cache",
                        server_expiry |-> token_cache.server_expiry]
         /\ cresult' = [cresult EXCEPT ![c] = Resolve(TRUE, has_pat)]
         /\ cpc' = [cpc EXCEPT ![c] = NoCall]
    ELSE IF ~key_valid
    THEN /\ iat_ret' = [kind |-> "raised", at |-> now]
         /\ cresult' = [cresult EXCEPT ![c] = Resolve(FALSE, has_pat)]
         /\ cpc' = [cpc EXCEPT ![c] = NoCall]
    ELSE /\ cpc' = [cpc EXCEPT ![c] = [at |-> "minting", since |-> now]]
         /\ UNCHANGED <<cresult, iat_ret>>

\* get_token_for_repo, lines 372-407, up to its first await, with
\* find_installation_for_repo lines 318-327
GetTokenForRepo(c) ==
    /\ cpc[c].at = "idle"
    /\ UNCHANGED <<pipeVars, labelVars, otherVars>>
    /\ UNCHANGED <<app_configured, key_valid, has_pat, now, token_cache,
                   installation_cache>>
    /\ IF ~app_configured
       THEN /\ cresult' = [cresult EXCEPT ![c] = Fallback(has_pat, FALSE)]
            /\ cinst' = [cinst EXCEPT ![c] = FALSE]
            /\ UNCHANGED <<cpc, iat_ret>>
       ELSE IF installation_cache
       THEN /\ cinst' = [cinst EXCEPT ![c] = TRUE]
            /\ EnterInstallationToken(c)
       ELSE IF ~key_valid
       THEN \* _generate_jwt of line 327 raises, outside every try
            /\ cresult' = [cresult EXCEPT ![c] =
                              [kind |-> "raised", by |-> "_generate_jwt", iat |-> FALSE]]
            /\ cinst' = [cinst EXCEPT ![c] = FALSE]
            /\ UNCHANGED <<cpc, iat_ret>>
       ELSE /\ cpc' = [cpc EXCEPT ![c] = [at |-> "finding", since |-> now]]
            /\ cinst' = [cinst EXCEPT ![c] = FALSE]
            /\ UNCHANGED <<cresult, iat_ret>>

\* find_installation_for_repo after its await, lines 340-366, and the
\* continuation in get_token_for_repo
FindInstallationResponse(c) ==
    /\ cpc[c].at = "finding"
    /\ UNCHANGED <<pipeVars, labelVars, otherVars>>
    /\ UNCHANGED <<app_configured, key_valid, has_pat, now, token_cache>>
    /\ \E r \in FindResponses :
          /\ r = "200" => InTime(cpc[c].since)
          /\ installation_cache' = InstallationCacheAfter(installation_cache, r)
          /\ IF r = "200"
             THEN /\ cinst' = [cinst EXCEPT ![c] = TRUE]
                  /\ EnterInstallationToken(c)
             ELSE /\ cresult' = [cresult EXCEPT ![c] = Fallback(has_pat, FALSE)]
                  /\ cpc' = [cpc EXCEPT ![c] = NoCall]
                  /\ UNCHANGED <<cinst, iat_ret>>

\* get_installation_token after its await, lines 269-297, and the
\* continuation in get_token_for_repo
InstallationTokenResponse(c) ==
    /\ cpc[c].at = "minting"
    /\ UNCHANGED <<pipeVars, labelVars, otherVars>>
    /\ UNCHANGED <<app_configured, key_valid, has_pat, now, installation_cache,
                   cinst>>
    /\ \E r \in MintResponses :
          /\ r = "201" => InTime(cpc[c].since)
          /\ IF r = "201"
             THEN \E issued \in {cpc[c].since, now} :
                    LET expires_at == issued + TokenTTL
                    IN  /\ token_cache' = TokenCacheAfter(token_cache, r,
                                                          CacheEntry(expires_at))
                        /\ iat_ret' = [kind |-> "token", at |-> now, from |-> "mint",
                                       server_expiry |-> expires_at]
                        /\ cresult' = [cresult EXCEPT ![c] = Resolve(TRUE, has_pat)]
             ELSE /\ iat_ret' = [kind |-> "raised", at |-> now]
                  /\ cresult' = [cresult EXCEPT ![c] = Resolve(FALSE, has_pat)]
                  /\ token_cache' = TokenCacheAfter(token_cache, r, token_cache)
    /\ cpc' = [cpc EXCEPT ![c] = NoCall]

Tick ==
    /\ now + TickStep <= MaxClock
    /\ now' = now + TickStep
    /\ UNCHANGED <<pipeVars, labelVars, otherVars>>
    /\ UNCHANGED <<app_configured, key_valid, has_pat, token_cache,
                   installation_cache, cpc, cinst, cresult, iat_ret>>

Call == \E c \in Callers : GetTokenForRepo(c)

FindDone == \E c \in Callers : FindInstallationResponse(c)

MintDone == \E c \in Callers : InstallationTokenResponse(c)

\* The settings the service was constructed with (lines 42-68)
BrokerInit ==
    /\ PipeInit /\ max_retries = 0
    /\ app_configured \in BOOLEAN /\ key_valid \in BOOLEAN /\ has_pat \in BOOLEAN
    /\ BrokerIdle
    /\ LabelsOfRun
    /\ OthersQuiet

BrokerNext ==
    \/ Call
    \/ FindDone
    \/ MintDone
    \/ Tick

BrokerSpec == BrokerInit /\ [][BrokerNext]_vars

(***************************************************************************)
(* Properties of the pipeline.                                             *)
(***************************************************************************)
Finished == phase \in {"END", "CRASHED"}

SomeFixApplied == \E i \in 1..Len(fixes) : fixes[i].status \in {"applied", "fixed"}

\* C1, as stated: a finished run is PASSED exactly when its most recent test
\* execution exited with code 0.
C1_PassedIffLastExitZero ==
    Finished => (results_json.final_status = "PASSED" <=> last_exit = 0)

\* C1, amended: a run that ends through generate_results is PASSED exactly
\* when its most recent test execution exited with code 0 (also when the
\* parser extracted no failure); a run in which a node raised is FAILED.
C1_PassedIffLastExitZeroUnlessRaised ==
    /\ phase = "END" => (results_json.final_status = "PASSED" <=> last_exit = 0)
    /\ phase = "CRASHED" => results_json.final_status = "FAILED"

C1_Witness ==
    /\ phase = "END" /\ last_exit = 1 /\ failures = <<>> /\ verify_count > 0
    /\ results_json.final_status = "FAILED"

\* C2: publish goes past its guard, commits or pushes only while some Fix is
\* applied or fixed; with none, a publish after a passing VERIFY does nothing.
C2_PublishOnlyWithAppliedFix ==
    (publish_attempted \/ commit_count > 0 \/ pushed) => SomeFixApplied

C2_Witness ==
    /\ phase = "generate_results" /\ verify_count > 0 /\ all_passed
    /\ ~SomeFixApplied /\ status = "completed"
    /\ ~publish_attempted /\ commit_count = 0 /\ ~pushed

\* C3: no payload sent to observers and no error of the run holds a credential.
C3_NoCredentialSurfaced ==
    /\ \A m \in sent : ~HasSecret(m)
    /\ ~HasSecret(error)

\* C4: after a test run that exited non-zero the parser has returned at
\* least one Failure.
C4_NonZeroExitYieldsFailure ==
    (phase = "generate_fix" /\ last_exit /= 0) => failures /= <<>>

\* C8, as stated: the counter moves only with VERIFY, by one, and every
\* result reports the number of VERIFY executions.
C8_IterationsUsedIsVerifyCount ==
    /\ iteration = verify_count + 1
    /\ results_json /= NoResult => results_json.iterations_used = verify_count

\* C8, amended: the counter changes only in VERIFY, by exactly one; the
\* result built by generate_results reports the number of VERIFY executions,
\* the result built after a raised exception reports 0.
C8_IterationsUsedUnlessRaised ==
    /\ [][iteration' /= iteration
            => (phase = "verify" /\ iteration' = iteration + 1)]_vars
    /\ [](iteration = verify_count + 1)
    /\ [](phase = "END" => results_json.iterations_used = verify_count)
    /\ [](phase = "CRASHED" => results_json.iterations_used = 0)

C8_Witness ==
    phase = "END" /\ verify_count = 2 /\ results_json.iterations_used = 2

Max(a, b) == IF a >= b THEN a ELSE b

\* C9, as stated: at most N VERIFY steps for a retry bound N >= 0.
C9_AtMostNVerifies ==
    /\ verify_count <= max_retries
    /\ results_json /= NoResult
         => results_json.iterations_used <= results_json.max_iterations

\* C9, amended: at most max(N, 1) VERIFY steps; a failing run verifies once
\* even when N = 0.
C9_AtMostNVerifiesOrOne ==
    /\ verify_count <= Max(max_retries, 1)
    /\ results_json /= NoResult
         => results_json.iterations_used <= Max(results_json.max_iterations, 1)

C9_Witness ==
    /\ phase = "END" /\ max_retries = 2 /\ verify_count = 2
    /\ results_json.iterations_used = results_json.max_iterations

\* C10: a run whose nodes all return reaches END; END is entered only from
\* generate_results; every turn of the retry loop uses up one unit of the
\* retry budget, which is what bounds the loop.
C10_RunTerminates ==
    /\ ([](phase /= "CRASHED")) => <>(phase = "END")
    /\ [](phase = "END" => results_json.built_by = "generate_results")
    /\ [][(phase = "verify" /\ phase' = "analyze_failures")
            => (iteration < iteration' /\ iteration' <= max_retries)]_vars

C10_Witness ==
    phase = "END" /\ verify_count >= 2 /\ last_exit = 1

(***************************************************************************)
(* Properties of the credential broker.                                    *)
(***************************************************************************)
\* C5: every token get_installation_token returns, from the cache or just
\* minted, expires at the server strictly later than five minutes from the
\* moment it is returned.
C5_ReturnedTokenOutlivesMargin ==
    iat_ret.kind = "token" => iat_ret.server_expiry > iat_ret.at + 5

C5_Witness ==
    /\ iat_ret.kind = "token" /\ iat_ret.from = "cache"
    /\ iat_ret.at > 0 /\ iat_ret.server_expiry <= iat_ret.at + 2 * TickStep + 5

\* C6: with a fallback secret configured get_token_for_repo never raises.
C6_FallbackNeverRaises ==
    \A c \in Callers : has_pat => cresult[c].kind /= "raised"

\* C7: get_token_for_repo answers with the installation token and method
\* "github_app" exactly when the app path yielded a token, whether or not a
\* fallback secret is configured; it answers with the fallback secret only
\* when the app path yielded none.
C7_AppTokenHasPriority ==
    \A c \in Callers :
        cresult[c].kind = "token" =>
            /\ cresult[c].iat => (cresult[c].method = "github_app"
                                  /\ cresult[c].token = AppToken)
            /\ ~cresult[c].iat => (cresult[c].method = "pat"
                                   /\ cresult[c].token = PatToken)
            /\ cresult[c].iat => app_configured

C7_Witness ==
    \E c \in Callers :
        /\ has_pat /\ app_configured
        /\ cresult[c].kind = "token" /\ cresult[c].method = "github_app"
        /\ iat_ret.kind = "token" /\ iat_ret.from = "mint"

(***************************************************************************)
(* Properties of the graph's edges and of the fix records.                 *)
(***************************************************************************)
AppliedIn(fx) == \E i \in 1..Len(fx) : fx[i].status \in {"applied", "fixed"}

\* C11: when VERIFY returns, the next phase is publish if the test run
\* passed; else publish if the counter exceeds the bound and some Fix is
\* applied or fixed; else generate_results if the counter exceeds the bound;
\* else analyze_failures.  When publish returns the next phase is
\* generate_results, and when generate_results returns the run is at END.
C11_EdgesAfterVerify ==
    [][/\ (phase = "verify" /\ phase' /= "CRASHED") =>
            phase' = IF all_passed' THEN "publish"
                     ELSE IF iteration' > max_retries /\ AppliedIn(fixes')
                          THEN "publish"
                     ELSE IF iteration' > max_retries THEN "generate_results"
                     ELSE "analyze_failures"
       /\ phase = "publish" => phase' = "generate_results"
       /\ (phase = "generate_results" /\ phase' /= "CRASHED") => phase' = "END"
      ]_vars

C11_Witness ==
    /\ phase = "publish" /\ ~all_passed /\ iteration > max_retries
    /\ AppliedIn(fixes) /\ verify_count = 2

Frozen == {"apply_failed", "unfixable", "error"}

\* C13: a Fix becomes fixed only from applied, only in a VERIFY step and
\* only when that step's test run passed; a Fix that is apply_failed,
\* unfixable or error keeps its status in every later step; recorded fixes
\* are never removed.
C13_FixLifecycle ==
    [][/\ Len(fixes') >= Len(fixes)
       /\ \A i \in 1..Len(fixes) :
            /\ (fixes'[i].status = "fixed" /\ fixes[i].status /= "fixed")
                  => (fixes[i].status = "applied" /\ phase = "verify"
                      /\ all_passed' /\ last_exit' = 0)
            /\ fixes[i].status \in Frozen => fixes'[i].status = fixes[i].status
      ]_vars

C13_Witness ==
    /\ verify_count = 2 /\ all_passed
    /\ \E i, j \in 1..Len(fixes) :
          /\ fixes[i].status = "fixed"
          /\ j < i /\ fixes[j].status = "apply_failed"

(***************************************************************************)
(* Properties of failed steps.                                             *)
(***************************************************************************)
\* C14: after a failed clone (no working copy) no later phase executes: the
\* run is at most about to report, and it ends FAILED.
C14_CloneFailureIsTerminal ==
    repo_path = <<>> =>
        /\ phase \in {"clone", "detect_framework", "generate_results", "END",
                      "CRASHED"}
        /\ last_exit = -1 /\ verify_count = 0 /\ fixes = <<>>
        /\ results_json /= NoResult => results_json.final_status = "FAILED"

\* publish_node returned through its except branch (lines 597-600)
PublishFailed ==
    /\ publish_attempted
    /\ \E o \in {"git_failed", "push_failed"}, r \in Resolutions :
          error = PublishError(PublishException(o, r.token))

\* C15: a run whose publish step failed ends with final_status FAILED.
C15_PublishFailureEndsFailed ==
    (phase = "END" /\ PublishFailed) => results_json.final_status = "FAILED"

\* C16: publish executes at most once in a run and is never entered again
\* after it returned, failed or not; at most one commit is created and every
\* result reports at most one.
C16_PublishAtMostOnce ==
    /\ commit_count <= 1
    /\ phase = "publish" => (~publish_attempted /\ commit_count = 0 /\ ~pushed)
    /\ (publish_attempted \/ status = "completed")
          => phase \in {"generate_results", "END", "CRASHED"}
    /\ results_json /= NoResult => results_json.total_commits <= 1

C16_Witness ==
    /\ phase = "END" /\ PublishFailed /\ commit_count = 1 /\ ~pushed
    /\ results_json.total_commits = 1

\* The run ended through generate_results and no test run of it passed
NeverPassed == phase = "END" /\ ~all_passed

C18_UnfixableFix ==
    /\ [](\A i \in 1..Len(failures) : \A o \in {"unfixable", "nodiff"} :
             /\ NewFix(failures[i], o).status = "unfixable"
             /\ NewFix(failures[i], o).diff = ""
             /\ NewFix(failures[i], o).confidence = 0)
    /\ [](\A i \in 1..Len(fixes) :
             fixes[i].status = "unfixable"
                => (fixes[i].diff = "" /\ fixes[i].confidence = 0
                    /\ ~Attempted(fixes[i])))
    /\ [][\A i \in 1..Len(fixes) :
             fixes[i].status = "unfixable" => fixes'[i] = fixes[i]]_vars

C18_Witness ==
    /\ verify_count >= 1 /\ all_passed
    /\ \E i, j \in 1..Len(fixes) :
          /\ fixes[i].status = "unfixable" /\ fixes[i].confidence = 0
          /\ fixes[j].status = "fixed"

(***************************************************************************)
(* The branch name as a function of the labels: the labels range over      *)
(* Labels, the name is derived, and derived again from the sanitized       *)
(* labels.                                                                 *)
(***************************************************************************)
\* run_pipeline, line 746
DeriveBranch ==
    /\ derivations = 0
    /\ branch_name' = make_branch_name(team_name, leader_name)
    /\ derivations' = 1
    /\ UNCHANGED <<team_name, leader_name>>
    /\ UNCHANGED <<pipeVars, brokerVars, otherVars>>

\* a second derivation, from the labels as the first one sanitized them
DeriveAgain ==
    /\ derivations = 1
    /\ team_name' = sanitize(team_name)
    /\ leader_name' = sanitize(leader_name)
    /\ branch_name' = make_branch_name(team_name', leader_name')
    /\ derivations' = 2
    /\ UNCHANGED <<pipeVars, brokerVars, otherVars>>

BranchInit ==
    /\ PipeInit /\ max_retries = 0
    /\ BrokerQuiet
    /\ OthersQuiet
    /\ team_name \in Labels /\ leader_name \in Labels
    /\ branch_name = <<>>
    /\ derivations = 0

BranchNext ==
    \/ DeriveBranch
    \/ DeriveAgain

BranchSpec == BranchInit /\ [][BranchNext]_vars

RECURSIVE SAN(_)
\* The sanitizer as C19 words it, on an upper-cased label: every maximal
\* run of characters outside [A-Z0-9] becomes one "_".
SAN(s) ==
    IF s = <<>> THEN <<>>
    ELSE IF Head(s) \in AZ09 THEN <<Head(s)>> \o SAN(Tail(s))
    ELSE IF Len(s) > 1 /\ s[2] \notin AZ09 THEN SAN(Tail(s))
    ELSE <<"_">> \o SAN(Tail(s))

\* C19: the branch name is SAN(team) + "_" + SAN(leader) + "_AI_Fix".
C19_BranchNameCollapsesRuns ==
    derivations = 1 =>
        branch_name = SAN(Upper(team_name)) \o <<"_">> \o SAN(Upper(leader_name))
                         \o <<"_", "A", "I", "_", "F", "i", "x">>

\* C20, as stated, the part about the characters: a derived branch name
\* holds only characters of [A-Z0-9_].
C20_NameHoldsOnlyUpperCase ==
    \A i \in 1..Len(branch_name) :
        branch_name[i] \in AZ09 \cup {"A", "I", "F", "_"}

\* C20, amended: deriving the name again from the sanitized labels gives the
\* same name; the name is two parts that hold only characters of [A-Z0-9_],
\* joined by "_" and followed by the literal suffix "_AI_Fix".
C20_IdempotentAndSanitizedParts ==
    /\ [][derivations = 1 => branch_name' = branch_name]_vars
    /\ [](derivations >= 1 =>
            /\ Len(branch_name) >= 8
            /\ SubSeq(branch_name, Len(branch_name) - 6, Len(branch_name))
                  = <<"_", "A", "I", "_", "F", "i", "x">>
            /\ \A i \in 1..(Len(branch_name) - 7) :
                  branch_name[i] \in AZ09 \cup {"_"})

C20_Witness ==
    /\ derivations = 2
    /\ branch_name = <<"_", "A", "_", "_", "S", "S">> \o Suffix

(***************************************************************************)
(* The classifier as a function of its three arguments: the arguments      *)
(* range over ErrorTypes, Messages and OutputTexts, and are classified.    *)
(***************************************************************************)
\* classify_bug_type called, bug_classifier.py lines 78-105
Classify ==
    /\ cls_result = ""
    /\ cls_result' = classify_bug_type(cls_error_type, cls_message, cls_output)
    /\ UNCHANGED <<cls_error_type, cls_message, cls_output>>
    /\ UNCHANGED <<pipeVars, brokerVars, labelVars, runsVars, sinkVars, scoreVars,
                   parserVars, probeVars,
                   applyVars>>

ClassifierInit ==
    /\ PipeInit /\ max_retries = 0
    /\ BrokerQuiet
    /\ LabelsOfRun
    /\ cls_error_type \in ErrorTypes
    /\ cls_message \in Messages
    /\ cls_output \in OutputTexts
    /\ cls_result = ""
    /\ RunsStarted
    /\ SinkIdle
    /\ ScoreQuiet
    /\ ParserQuiet /\ ProbeQuiet /\ ApplyQuiet

ClassifierNext == Classify

ClassifierSpec == ClassifierInit /\ [][ClassifierNext]_vars

\* the kinds in the order the patterns are tried
KindOrder == <<"INDENTATION", "SYNTAX", "IMPORT", "TYPE_ERROR", "LINTING", "LOGIC">>

\* some word of the three arguments is one the pattern of kind k finds
KindFound(k) ==
    \E p \in {_MESSAGE_PATTERNS[i] : i \in 1..Len(_MESSAGE_PATTERNS)} :
        /\ p.bug_type = k
        /\ \E t \in {cls_error_type, cls_message, cls_output} :
               \E i \in 1..Len(t) : t[i] \in p.finds

\* the error type, without surrounding whitespace, is a key of the table
TableKey == {n \in DOMAIN _ERROR_TYPE_MAP : Strip(cls_error_type) = <<n>>}

\* C21: the classifier returns one of the six canonical kinds: the table's
\* kind when the error type is a key of the table (SYNTAX for SyntaxError,
\* whatever the message and the output), otherwise the kind of the first
\* pattern, in the order indentation, syntax, import, type, linting, logic,
\* that finds something in error type, message or output, otherwise LOGIC.
C21_ClassifierOrder ==
    cls_result /= "" =>
        /\ cls_result \in BUG_TYPES
        /\ Strip(cls_error_type) = <<"SyntaxError">> => cls_result = "SYNTAX"
        /\ \A n \in TableKey : cls_result = _ERROR_TYPE_MAP[n]
        /\ TableKey = {} =>
              /\ \A i \in 1..Len(KindOrder) :
                    (KindFound(KindOrder[i])
                       /\ \A j \in 1..(i - 1) : ~KindFound(KindOrder[j]))
                    => cls_result = KindOrder[i]
              /\ (\A i \in 1..Len(KindOrder) : ~KindFound(KindOrder[i]))
                    => cls_result = "LOGIC"

\* SyntaxError, padded, with a message an earlier pattern finds, and an
\* unlisted error type whose message holds a logic word before a type word
C21_Witness ==
    \/ /\ cls_result = "SYNTAX"
       /\ cls_error_type = <<" ", "SyntaxError">>
       /\ cls_message = <<"unexpected indent">>
    \/ /\ cls_result = "TYPE_ERROR"
       /\ cls_error_type = <<"CustomError">>
       /\ cls_message = <<"undefined", "not callable">>

\* caller c enters get_installation_token in this step: it has the
\* installation id at hand (from the cache, or from a 200 reply)
EntersInstallationToken(c) ==
    /\ cpc[c].at \in {"idle", "finding"}
    /\ cpc'[c].at /= "finding"
    /\ cinst'[c]
    /\ now' = now
    /\ <<cpc'[c], cresult'[c], cinst'[c]>> /= <<cpc[c], cresult[c], cinst[c]>>

\* the cached token is still five minutes away from the expiry the server
\* gave it
Fresh == token_cache.present /\ now < token_cache.server_expiry - SafetyMargin

\* C22: get_installation_token returns the cached token, without a request
\* to the mint endpoint, exactly when now < server_expiry - 5 minutes;
\* otherwise it asks the mint endpoint, and the token of a 201 reply
\* replaces the cache entry and is returned.
C22_CachedTokenIffFresh ==
    [][/\ (iat_ret' /= iat_ret /\ iat_ret'.kind = "token" /\ iat_ret'.from = "cache")
            => /\ Fresh
               /\ token_cache' = token_cache
               /\ iat_ret'.server_expiry = token_cache.server_expiry
               /\ \A c \in Callers : cpc'[c].at = "minting" => cpc[c].at = "minting"
       /\ \A c \in Callers : EntersInstallationToken(c) =>
            /\ Fresh => /\ cpc'[c] = NoCall
                        /\ iat_ret'.kind = "token" /\ iat_ret'.from = "cache"
                        /\ cresult'[c].kind = "token" /\ cresult'[c].token = AppToken
            /\ (~Fresh /\ key_valid) => /\ cpc'[c].at = "minting"
                                        /\ cresult'[c] = cresult[c]
                                        /\ token_cache' = token_cache
       /\ \A c \in Callers :
            (cpc[c].at = "minting" /\ cpc'[c] = NoCall /\ iat_ret'.kind = "token")
            => /\ iat_ret'.from = "mint"
               /\ token_cache'.present
               /\ token_cache'.server_expiry = iat_ret'.server_expiry
               /\ token_cache'.safe_expiry = iat_ret'.server_expiry - SafetyMargin
               /\ cresult'[c].kind = "token" /\ cresult'[c].token = AppToken
      ]_vars

\* the cached token handed out at the last instant it counts as valid, after
\* an earlier caller minted it
C22_Witness ==
    /\ iat_ret.kind = "token" /\ iat_ret.from = "cache"
    /\ iat_ret.at = iat_ret.server_expiry - SafetyMargin - TickStep
    /\ \E c \in Callers : cresult[c].kind = "token" /\ cresult[c].token = AppToken

\* caller c enters get_token_for_repo in this step
CallsBroker(c) ==
    /\ cpc[c].at = "idle"
    /\ now' = now
    /\ <<cpc'[c], cresult'[c], cinst'[c]>> /= <<cpc[c], cresult[c], cinst[c]>>

\* C23: find_installation_for_repo stores a binding only with a 200 reply,
\* whose id it returns; after any other reply or a network error it returns
\* absent and leaves the installation cache as it was, so the next lookup
\* asks the remote again; a cached binding is returned without a request.
C23_InstallationCachedOnlyOn200 ==
    [][/\ installation_cache' /= installation_cache
            => /\ installation_cache'
               /\ \E c \in Callers : cpc[c].at = "finding" /\ cinst'[c]
       /\ \A c \in Callers :
            (cpc[c].at = "finding" /\ cpc'[c].at /= "finding" /\ ~cinst'[c])
            => /\ installation_cache' = installation_cache
               /\ cresult'[c] = Fallback(has_pat, FALSE)
       /\ \A c \in Callers :
            (CallsBroker(c) /\ app_configured /\ key_valid /\ ~installation_cache)
            => cpc'[c].at = "finding"
       /\ \A c \in Callers :
            (CallsBroker(c) /\ app_configured /\ installation_cache)
            => cpc'[c].at /= "finding" /\ cinst'[c]
      ]_vars

\* a lookup is under way although an earlier one was answered without a
\* binding, and the cache is still empty
C23_Witness ==
    /\ ~installation_cache
    /\ cpc["c2"].at = "finding"
    /\ cresult["c1"] = Fallback(has_pat, FALSE)
    /\ cpc["c1"].at = "idle"
    /\ app_configured

\* C24: the lookup-then-store of one resolution on a cache is not
\* interleaved with another resolution's lookup-then-store on that cache:
\* at most one caller is between its miss in the installation cache and its
\* store, and at most one between its miss in the token cache and its store.
C24_OneResolutionPerCache ==
    /\ Cardinality({c \in Callers : cpc[c].at = "finding"}) <= 1
    /\ Cardinality({c \in Callers : cpc[c].at = "minting"}) <= 1

(***************************************************************************)
(* Runs side by side: the steps of a run that work in its directory.       *)
(***************************************************************************)
\* clone_node, lines 133-160, with clone_with_smart_auth
\* (git_service.py:202-245): the clone succeeds or fails
RunClone(r) ==
    /\ run_phase[r] = "clone"
    /\ \E ok \in BOOLEAN :
          /\ run_repo_path' = [run_repo_path EXCEPT ![r] =
                                  IF ok THEN CloneDir(r) ELSE <<>>]
          /\ run_dirs' = [run_dirs EXCEPT ![r] = @ \cup {CloneDir(r)}]
    /\ run_phase' = [run_phase EXCEPT ![r] = "detect_framework"]

\* detect_framework_node, lines 163-179: reads the repository if there is one
RunDetectFramework(r) ==
    /\ run_phase[r] = "detect_framework"
    /\ run_dirs' = [run_dirs EXCEPT ![r] =
                       IF run_repo_path[r] = <<>> THEN @
                       ELSE @ \cup {WorkDir(run_repo_path[r])}]
    /\ run_phase' = [run_phase EXCEPT ![r] = "install_deps"]
    /\ UNCHANGED run_repo_path

\* install_deps_node, lines 182-243: Path(repo) / "requirements.txt", cwd=repo
RunInstallDeps(r) ==
    /\ run_phase[r] = "install_deps"
    /\ run_dirs' = [run_dirs EXCEPT ![r] = @ \cup {WorkDir(run_repo_path[r])}]
    /\ run_phase' = [run_phase EXCEPT ![r] = "run_tests"]
    /\ UNCHANGED run_repo_path

\* run_tests_node, lines 246-296, then analyze_failures and generate_fix,
\* which write nothing: the tests pass, or a fix is generated
RunTestsOf(r) ==
    /\ run_phase[r] = "run_tests"
    /\ \E passed \in BOOLEAN :
          run_phase' = [run_phase EXCEPT ![r] =
                           IF passed THEN "END" ELSE "apply_fix"]
    /\ UNCHANGED <<run_repo_path, run_dirs>>

\* apply_fix_node, lines 429-475: the patch is written to
\* Path(repo_path) / ".neverdown_patch.diff"
RunApplyFix(r) ==
    /\ run_phase[r] = "apply_fix"
    /\ run_dirs' = [run_dirs EXCEPT ![r] = @ \cup {WorkDir(run_repo_path[r])}]
    /\ run_phase' = [run_phase EXCEPT ![r] = "END"]
    /\ UNCHANGED run_repo_path

RunsFrame == UNCHANGED <<pipeVars, brokerVars, labelVars, classifierVars, sinkVars,
                         scoreVars, parserVars, probeVars,
                   applyVars>>

StepClone == (\E r \in Runs : RunClone(r)) /\ RunsFrame

StepDetectFramework == (\E r \in Runs : RunDetectFramework(r)) /\ RunsFrame

StepInstallDeps == (\E r \in Runs : RunInstallDeps(r)) /\ RunsFrame

StepRunTests == (\E r \in Runs : RunTestsOf(r)) /\ RunsFrame

StepApplyFix == (\E r \in Runs : RunApplyFix(r)) /\ RunsFrame

RunsInit ==
    /\ PipeInit /\ max_retries = 0
    /\ BrokerQuiet
    /\ LabelsOfRun
    /\ ClassifierQuiet
    /\ RunsStarted
    /\ SinkIdle
    /\ ScoreQuiet
    /\ ParserQuiet /\ ProbeQuiet /\ ApplyQuiet

RunsNext ==
    \/ StepClone
    \/ StepDetectFramework
    \/ StepInstallDeps
    \/ StepRunTests
    \/ StepApplyFix

RunsSpec == RunsInit /\ [][RunsNext]_vars

SinkFrame == UNCHANGED <<pipeVars, brokerVars, labelVars, classifierVars, runsVars,
                         scoreVars, parserVars, probeVars,
                   applyVars>>

\* ConnectionManager.connect, lines 27-32: the route of a client registers
\* its socket under the run_id of its URL
SinkConnect ==
    /\ \E s \in Subscribers, r \in SinkRuns :
          /\ sink_socket[s] = "new"
          /\ sink_socket' = [sink_socket EXCEPT ![s] = "open"]
          /\ sink_run' = [sink_run EXCEPT ![s] = r]
          /\ sink_conns' = [sink_conns EXCEPT ![r] = Append(@, s)]
    /\ UNCHANGED <<sink_next, sink_bcs, sink_delivered>>
    /\ SinkFrame

\* the peer goes away: ConnectionManager.disconnect, lines 34-42, called
\* from the socket's route with the same run_id (api/routes/ws.py:26-30)
SinkDisconnect ==
    /\ \E s \in Subscribers :
          /\ sink_socket[s] = "open"
          /\ sink_socket' = [sink_socket EXCEPT ![s] = "closed"]
          /\ sink_conns' = [sink_conns EXCEPT ![sink_run[s]] = Remove(@, s)]
    /\ UNCHANGED <<sink_run, sink_next, sink_bcs, sink_delivered>>
    /\ SinkFrame

\* ConnectionManager.broadcast, lines 44-50: the task of run r submits the
\* next event; the call copies the list of sockets registered under r
SinkSubmit ==
    /\ sink_next <= MaxEvents
    /\ \E r \in SinkRuns :
          /\ MaySubmit({b \in sink_bcs : b.run = r})
          /\ sink_bcs' = sink_bcs \cup
                {[event |-> sink_next, run |-> r,
                  snap |-> Snapshot(sink_conns, r),
                  todo |-> Snapshot(sink_conns, r), dead |-> {}]}
    /\ sink_next' = sink_next + 1
    /\ UNCHANGED <<sink_conns, sink_socket, sink_run, sink_delivered>>
    /\ SinkFrame

\* ConnectionManager.broadcast, lines 53-57: one await ws.send_text; it
\* raises on a closed socket and may raise on an open one; the loop goes on
\* with the next socket either way
SinkSend ==
    /\ \E b \in sink_bcs :
          /\ b.todo /= <<>>
          /\ LET s == Head(b.todo)
             IN  \E ok \in BOOLEAN :
                    /\ ok => sink_socket[s] = "open"
                    /\ sink_delivered' =
                          IF ok THEN [sink_delivered EXCEPT ![s] = Append(@, b.event)]
                          ELSE sink_delivered
                    /\ sink_bcs' = (sink_bcs \ {b}) \cup
                          {[b EXCEPT !.todo = Tail(b.todo),
                                     !.dead = IF ok THEN @ ELSE @ \cup {s}]}
    /\ UNCHANGED <<sink_conns, sink_socket, sink_run, sink_next>>
    /\ SinkFrame

\* ConnectionManager.broadcast, lines 59-65: the dead sockets are pruned
\* from the list of the run and the call returns
SinkReturn ==
    /\ \E b \in sink_bcs :
          /\ b.todo = <<>>
          /\ sink_conns' = [sink_conns EXCEPT ![b.run] = Prune(@, b.dead)]
          /\ sink_bcs' = sink_bcs \ {b}
    /\ UNCHANGED <<sink_socket, sink_run, sink_next, sink_delivered>>
    /\ SinkFrame

SinkInit ==
    /\ PipeInit /\ max_retries = 0
    /\ BrokerQuiet
    /\ LabelsOfRun
    /\ ClassifierQuiet
    /\ RunsStarted
    /\ SinkIdle
    /\ ScoreQuiet
    /\ ParserQuiet /\ ProbeQuiet /\ ApplyQuiet

SinkNext ==
    \/ SinkConnect
    \/ SinkDisconnect
    \/ SinkSubmit
    \/ SinkSend
    \/ SinkReturn

SinkSpec == SinkInit /\ [][SinkNext]_vars

\* C26: every subscriber receives the events of the run in the order the
\* orchestrator submitted them: no event arrives after an event that was
\* submitted later.
C26_DeliveredInSubmissionOrder ==
    \A s \in Subscribers :
        \A i, j \in 1..Len(sink_delivered[s]) :
            i < j => sink_delivered[s][i] < sink_delivered[s][j]

\* one subscriber received every event, another joined late and received
\* the rest
C26_Witness ==
    /\ Len(sink_delivered["s1"]) = MaxEvents
    /\ Len(sink_delivered["s2"]) = 2
    /\ sink_delivered["s2"][1] = 2

\* the positions of the events named ev in the timeline
Pos(ev) == {i \in 1..Len(timeline) : timeline[i].state = ev}

\* the events of the timeline are in pipeline order
TimelineInOrder ==
    /\ timeline /= <<>> => timeline[1].state = "CLONING"
    /\ Cardinality(Pos("CLONING")) <= 1
    /\ \A i \in Pos("FRAMEWORK_DETECTED") : \A j \in Pos("TESTS_RUN") : i < j
    /\ Cardinality(Pos("FRAMEWORK_DETECTED")) <= 1
    /\ \A j \in Pos("FAILURES_ANALYZED") : \E i \in Pos("TESTS_RUN") : i < j
    /\ \A i \in Pos("FIXES_GENERATED") : \A j \in Pos("VERIFICATION") :
          timeline[i].iteration = timeline[j].iteration => i < j
    /\ \A i \in Pos("FIXES_GENERATED") : \E j \in Pos("FAILURES_ANALYZED") :
          j < i /\ timeline[j].iteration = timeline[i].iteration

\* C27: the timeline of a run is append-only (every step leaves the events
\* already there in place and at most adds events at the end), and its
\* events are in pipeline order: CLONING, then FRAMEWORK_DETECTED, then
\* TESTS_RUN, then FAILURES_ANALYZED, and in each iteration FIXES_GENERATED
\* before that iteration's VERIFICATION.
C27_TimelineAppendOnlyInOrder ==
    /\ [][IsPrefix(timeline, timeline')]_vars
    /\ []TimelineInOrder

\* a run in its second iteration: both iterations generated fixes and were
\* verified
C27_Witness ==
    /\ \E i, j \in 1..Len(timeline) :
          /\ timeline[i] = [state |-> "FIXES_GENERATED", iteration |-> 1]
          /\ timeline[j] = [state |-> "VERIFICATION", iteration |-> 1]
    /\ \E i, j \in 1..Len(timeline) :
          /\ timeline[i] = [state |-> "FIXES_GENERATED", iteration |-> 2]
          /\ timeline[j] = [state |-> "VERIFICATION", iteration |-> 2]
    /\ Pos("FRAMEWORK_DETECTED") /= {}

(***************************************************************************)
(* A run whose task is cancelled from outside.  The pipeline state has no  *)
(* cancellation flag and the graph (build_pipeline, lines 674-717) has no  *)
(* edge that reads one; what can reach a run is the cancellation of the    *)
(* task that executes it, delivered at the await the task is suspended in. *)
(***************************************************************************)
\* asyncio.CancelledError raised inside a node: it is not an Exception, so
\* neither run_pipeline's handler (line 777) nor _execute_pipeline's
\* (api/routes/run_agent.py:167) catches it; no result is built and no
\* status is recorded
TaskCancelled ==
    /\ phase \notin {"END", "CRASHED", "CANCELLED"}
    /\ phase' = "CANCELLED"
    /\ sent' = {}
    /\ UNCHANGED <<repo_path, status, error, test_output, all_passed, failures,
                   fixes, commit_count, iteration, max_retries, results_json,
                   timeline, last_exit, verify_count, publish_attempted, pushed>>
    /\ UNCHANGED <<brokerVars, labelVars, otherVars>>

CancelNext ==
    \/ Next
    \/ TaskCancelled

CancelSpec == Init /\ [][CancelNext]_vars

\* C28: a run that was cancelled from outside ends with status FAILED.
C28_CancelledRunEndsFailed ==
    phase = "CANCELLED" =>
        /\ results_json /= NoResult
        /\ results_json.final_status = "FAILED"

(***************************************************************************)
(* The score as a function of wall time and commit count.                  *)
(***************************************************************************)
\* build_results_json, results_generator.py line 72
ComputeScore ==
    /\ score = NoScore
    /\ score' = calculate_score(score_time, score_commits)
    /\ UNCHANGED <<score_time, score_commits>>
    /\ UNCHANGED <<pipeVars, brokerVars, labelVars, classifierVars, runsVars,
                   sinkVars, parserVars, probeVars,
                   applyVars>>

ScoreInit ==
    /\ PipeInit /\ max_retries = 0
    /\ BrokerQuiet
    /\ LabelsOfRun
    /\ ClassifierQuiet
    /\ RunsStarted
    /\ SinkIdle
    /\ ParserQuiet /\ ProbeQuiet /\ ApplyQuiet
    /\ score_time \in 0..MaxWallTime
    /\ score_commits \in 0..MaxCommits
    /\ score = NoScore

ScoreNext == ComputeScore

ScoreSpec == ScoreInit /\ [][ScoreNext]_vars

\* the larger of x and 0
AtLeastZero(x) == IF x < 0 THEN 0 ELSE x

\* C29: the final score is max(0, 100 + (10 if the wall time is under 300
\* seconds, else 0) - 2 * max(0, commits - 20)), for every wall time and
\* every commit count.
C29_ScoreFormula ==
    score /= NoScore =>
        score.final = AtLeastZero(100 + (IF score_time < 300 THEN 10 ELSE 0)
                                      - 2 * AtLeastZero(score_commits - 20))

\* a slow run with so many commits that the floor applies, and a fast one
\* at the last second of the bonus with a penalty
C29_Witness ==
    \/ score /= NoScore /\ score_time = 300 /\ score_commits = 75 /\ score.final = 0
    \/ score /= NoScore /\ score_time = 299 /\ score_commits = 21 /\ score.final = 108

\* C30: analyze_failures builds the synthetic fallback Failure only for a
\* test run that exited non-zero: after a run that exited 0 the failures
\* hold no synthetic record.
C30_NoSyntheticFailureAfterExitZero ==
    [][(phase = "analyze_failures" /\ phase' /= "CRASHED" /\ last_exit = 0)
         => \A i \in 1..Len(failures') : failures'[i].origin /= "synthetic"]_vars

(***************************************************************************)
(* ParserSpec: _parse_test_failures applied once to every runner output    *)
(* of ParserOutputs, with and without a repository path.                   *)
(***************************************************************************)
ParseFailures ==
    /\ parse_failures = NotParsed
    /\ parse_failures' = _parse_test_failures(parse_output, parse_repo)
    /\ UNCHANGED <<parse_output, parse_repo>>
    /\ UNCHANGED <<pipeVars, brokerVars, labelVars, classifierVars, runsVars,
                   sinkVars, scoreVars, probeVars, applyVars>>

ParserInit ==
    /\ PipeInit /\ BrokerQuiet /\ LabelsOfRun
    /\ ClassifierQuiet /\ RunsStarted /\ SinkIdle /\ ScoreQuiet /\ ProbeQuiet
    /\ ApplyQuiet
    /\ parse_output \in ParserOutputs
    /\ parse_repo \in {<<>>, RepoRoot}
    /\ parse_failures = NotParsed

ParserNext == ParseFailures

ParserSpec == ParserInit /\ [][ParserNext]_vars

\* The file the normalization rule names for a reported path: the sandbox
\* mount prefix stripped, a path under the repository made relative to it,
\* any other absolute path replaced by unknown.
NamedFile(file_path, repo) ==
    IF file_path = <<>> THEN Unknown
    ELSE IF Len(file_path) > 2 /\ Head(file_path) = "/"
            /\ file_path[2] \in {"workspace", "app"}
    THEN SubSeq(file_path, 3, Len(file_path))
    ELSE IF repo /= <<>> /\ IsPrefix(repo, file_path)
    THEN SubSeq(file_path, Len(repo) + 1, Len(file_path))
    ELSE IF Head(file_path) = "/" THEN Unknown
    ELSE file_path

\* C31: once the output is parsed, the files of the failures taken from the
\* error frames are exactly the normalized files of those frames: mount
\* prefix stripped, repo-relative under the repository, unknown for an
\* absolute path outside the repository.
C31_FailureFilesNormalized ==
    parse_failures /= NotParsed =>
        {parse_failures[i].file :
            i \in {k \in 1..Len(parse_failures) :
                      parse_failures[k].origin = "log"}}
        = {NamedFile(parse_output.log[i].file, parse_repo) :
            i \in 1..Len(parse_output.log)}

(***************************************************************************)
(* ApplySpec: the loop body of apply_fix_node run once on one Fix, for     *)
(* every status, with and without a diff, in every environment.            *)
(***************************************************************************)
ApplyOne ==
    /\ ~apply_done
    /\ apply_done' = TRUE
    /\ IF Attempted(apply_rec)
       THEN LET r == ApplyStrategies(apply_env)
            IN  /\ apply_rec' = [apply_rec EXCEPT !.status = r.status]
                /\ apply_tried' = r.tried
       ELSE UNCHANGED <<apply_rec, apply_tried>>
    /\ UNCHANGED apply_env
    /\ UNCHANGED <<pipeVars, brokerVars, labelVars, classifierVars, runsVars,
                   sinkVars, scoreVars, parserVars, probeVars>>

ApplyInit ==
    /\ PipeInit /\ BrokerQuiet /\ LabelsOfRun
    /\ ClassifierQuiet /\ RunsStarted /\ SinkIdle /\ ScoreQuiet
    /\ ParserQuiet /\ ProbeQuiet
    /\ apply_rec \in [status : FixStatuses, diff : {"", "diff"}]
    /\ apply_env \in ApplyEnvs
    /\ apply_tried = <<>>
    /\ apply_done = FALSE

ApplyNext == ApplyOne

ApplySpec == ApplyInit /\ [][ApplyNext]_vars

\* the strategies that ran are the first n of the fixed order
IsStrategyPrefix(tried) ==
    Len(tried) <= Len(Strategies) /\ tried = SubSeq(Strategies, 1, Len(tried))

\* C32: after the loop body has run on a pending or generated Fix with a
\* diff, the strategies run are standard, three-way, manual in that order,
\* each one run only after every earlier one failed, and the Fix is applied
\* if and only if one of the strategies run succeeded, apply_failed
\* otherwise (also when a step raised).
C32_StrategiesInOrderAppliedIffOneSucceeded ==
    (apply_done /\ apply_tried /= <<>>) =>
        LET ran == Tail(apply_tried)
        IN  /\ IsStrategyPrefix(ran)
            /\ \A i \in 1..Len(ran) - 1 : apply_env[ran[i]] = "fail"
            /\ (apply_rec.status = "applied") <=>
                  (\E i \in 1..Len(ran) : apply_env[ran[i]] = "ok")
            /\ apply_rec.status \in {"applied", "apply_failed"}

\* the manual fallback succeeded after both git strategies failed
C32_Witness ==
    /\ apply_done
    /\ apply_tried = <<"write">> \o Strategies
    /\ apply_rec.status = "applied"

\* C33: a step of generate_fix_node that returns has recorded one Fix per
\* failure, in order, the Fix of a failure whose reasoner call or reply
\* parsing raised having status error and no diff; the run goes on to
\* apply_fix, and from apply_fix to verify.
C33_ReasonerErrorRecordedRunContinues ==
    [][/\ (phase = "generate_fix" /\ phase' /= "CRASHED") =>
            /\ phase' = "apply_fix"
            /\ Len(fixes') = Len(fixes) + Len(failures)
            /\ SubSeq(fixes', 1, Len(fixes)) = fixes
            /\ \A i \in 1..Len(failures) :
                  LET f == fixes'[Len(fixes) + i]
                  IN  /\ f.file = failures[i].file
                      /\ f.line_number = failures[i].line
                      /\ f.root_cause = "exception" =>
                            (f.status = "error" /\ f.diff = "")
       /\ (phase = "apply_fix" /\ phase' /= "CRASHED") => phase' = "verify"
      ]_vars

\* verification is reached with the Fix of a failed reasoner call next to a
\* Fix that was attempted
C33_Witness ==
    /\ phase = "verify"
    /\ \E i, j \in 1..Len(fixes) :
          /\ fixes[i].status = "error" /\ fixes[i].root_cause = "exception"
          /\ i < j
          /\ fixes[j].status \in {"applied", "apply_failed"}

\* the elements of a list
Elems(list) == {list[i] : i \in 1..Len(list)}

\* this step is the return of the broadcast call b
Returns(b) == b \in sink_bcs /\ b.todo = <<>> /\ b \notin sink_bcs'

\* C34: when a broadcast in which some send failed returns, every other
\* socket of its snapshot has received the message, and no socket whose
\* send failed is left in the list of the run, whatever connects and
\* disconnects happened meanwhile.
C34_FailedSubscriberPrunedOthersServed ==
    [][\A b \in sink_bcs :
          (Returns(b) /\ b.dead /= {}) =>
             /\ \A s \in Elems(b.snap) \ b.dead :
                   b.event \in Elems(sink_delivered[s])
             /\ b.dead \cap Elems(sink_conns'[b.run]) = {}
      ]_vars

\* a broadcast to two sockets is about to return: the send to the first
\* failed although it is still registered, the second received the message
C34_Witness ==
    \E b \in sink_bcs :
        /\ b.todo = <<>>
        /\ Len(b.snap) = 2
        /\ b.dead = {b.snap[1]}
        /\ b.snap[1] \in Elems(sink_conns[b.run])
        /\ b.event \in Elems(sink_delivered[b.snap[2]])

\* C36 as stated: when a broadcast returns, every socket registered under
\* its run_id at the snapshot has received the message.
C36_DeliveredToWholeSnapshot ==
    [][\A b \in sink_bcs :
          Returns(b) => \A s \in Elems(b.snap) :
                           b.event \in Elems(sink_delivered[s])
      ]_vars

\* C36: a broadcast takes as its snapshot the list registered under its
\* run_id; a message is only ever received by a socket registered under the
\* run_id of its broadcast; and when the broadcast returns every socket of
\* the snapshot has received the message or its send has failed.
C36_BroadcastStaysInItsRun ==
    [][/\ \A b \in sink_bcs' \ sink_bcs :
             b.todo = b.snap => b.snap = sink_conns[b.run]
       /\ \A s \in Subscribers :
             sink_delivered'[s] /= sink_delivered[s] =>
                \E b \in sink_bcs :
                   /\ sink_delivered'[s] = Append(sink_delivered[s], b.event)
                   /\ sink_run[s] = b.run
       /\ \A b \in sink_bcs :
             Returns(b) => \A s \in Elems(b.snap) :
                              \/ s \in b.dead
                              \/ b.event \in Elems(sink_delivered[s])
      ]_vars

\* two sockets registered under different run_ids have each received the
\* message of their own run and nothing else
C36_Witness ==
    /\ sink_run["s1"] /= sink_run["s2"]
    /\ Len(sink_delivered["s1"]) = 1
    /\ Len(sink_delivered["s2"]) = 1
    /\ sink_delivered["s1"] /= sink_delivered["s2"]
    /\ sink_next = 3

(***************************************************************************)
(* HandlerSpec: the run with the exception handler of run_pipeline itself  *)
(* failing.  The handler calls save_results_json (line 796), whose mkdir   *)
(* and write_text (results_generator.py:107-113) are not guarded: when the *)
(* results directory cannot be written the handler raises in turn, and the *)
(* background worker reports the error (run_agent.py:167-172).             *)
(***************************************************************************)
CrashUnsaved ==
    /\ phase \in CanRaise
    /\ phase' = "PROPAGATED"
    /\ sent' = {Clip(<<Lit("exception text", 14)>>, 300)}
    /\ UNCHANGED <<repo_path, status, error, test_output, all_passed, failures,
                   fixes, commit_count, iteration, max_retries, results_json,
                   timeline, last_exit, verify_count, publish_attempted, pushed>>
    /\ UNCHANGED <<brokerVars, labelVars, otherVars>>

HandlerNext ==
    \/ Next
    \/ CrashUnsaved

HandlerSpec == Init /\ [][HandlerNext]_vars

\* C37: whenever a node has raised, run_pipeline has returned a result with
\* final_status FAILED, iterations_used 0 and no fixes.
C37_CrashYieldsFailedResult ==
    phase \in {"CRASHED", "PROPAGATED"} =>
        /\ results_json /= NoResult
        /\ results_json.final_status = "FAILED"
        /\ results_json.iterations_used = 0
        /\ results_json.fixes = <<>>

\* C38: when verify_node is about to run no Fix is pending, and a result
\* PASSED built after at least one verification lists no Fix that is
\* pending or applied: every Fix is fixed, apply_failed, unfixable or error.
C38_NoPendingAtVerifyNoAppliedWhenPassed ==
    /\ phase = "verify" =>
          \A i \in 1..Len(fixes) : fixes[i].status /= "pending"
    /\ (results_json /= NoResult /\ results_json.final_status = "PASSED"
         /\ verify_count >= 1) =>
          /\ \A i \in 1..Len(fixes) :
                fixes[i].status \in {"fixed", "apply_failed", "unfixable", "error"}
          /\ \A i \in 1..Len(results_json.fixes) :
                results_json.fixes[i]
                   \in {"fixed", "apply_failed", "unfixable", "error"}

\* a run ended PASSED after a verification that failed and one that passed,
\* with a Fix promoted to fixed next to one that could not be applied
C38_Witness ==
    /\ results_json /= NoResult
    /\ results_json.final_status = "PASSED"
    /\ verify_count >= 2
    /\ \E i, j \in 1..Len(results_json.fixes) :
          /\ results_json.fixes[i] = "fixed"
          /\ results_json.fixes[j] = "apply_failed"

\* C39: a step of apply_fix_node changes nothing but the status of Fixes
\* that were pending or generated: a Fix that is applied, apply_failed,
\* fixed, unfixable or error is the same record afterwards, so a diff that
\* was attempted once is not attempted again.
C39_ApplyTouchesOnlyPendingFixes ==
    [][(phase = "apply_fix" /\ phase' = "verify") =>
          /\ Len(fixes') = Len(fixes)
          /\ \A i \in 1..Len(fixes) :
                /\ fixes[i].status \notin {"pending", "generated"} =>
                      fixes'[i] = fixes[i]
                /\ fixes'[i] /= fixes[i] =>
                      /\ fixes[i].diff /= ""
                      /\ fixes'[i] = [fixes[i] EXCEPT !.status = fixes'[i].status]
                      /\ fixes'[i].status \in {"applied", "apply_failed"}
      ]_vars

\* apply_fix_node is about to run in a later iteration: Fixes applied and
\* not applied earlier, both carrying a diff, stand next to a pending one
C39_Witness ==
    /\ phase = "apply_fix"
    /\ verify_count >= 1
    /\ \E i, j, k \in 1..Len(fixes) :
          /\ fixes[i].status = "applied" /\ fixes[i].diff /= ""
          /\ fixes[j].status = "apply_failed" /\ fixes[j].diff /= ""
          /\ fixes[k].status = "pending"

\* caller c's mint call ends in this step with the failure raised
MintFails(c) ==
    /\ cpc[c].at = "minting"
    /\ cpc'[c] = NoCall
    /\ iat_ret'.kind = "raised"

\* C40: a mint call that fails raises to its caller, which resolves the
\* credential without the app token, and leaves the token cache and the
\* installation cache exactly as they were: no entry is added, emptied or
\* replaced.
C40_FailedMintLeavesCaches ==
    [][\A c \in Callers :
          MintFails(c) =>
             /\ token_cache' = token_cache
             /\ installation_cache' = installation_cache
             /\ cresult'[c] = Resolve(FALSE, has_pat)
      ]_vars

\* a mint failed while the caches held the installation and an expired
\* token: both are still there
C40_Witness ==
    /\ iat_ret.kind = "raised"
    /\ token_cache.present
    /\ ~CacheHit(token_cache, now)
    /\ installation_cache

(***************************************************************************)
(* ProbeSpec: detect_test_framework called once on every repository of     *)
(* ProbeRepos.                                                             *)
(***************************************************************************)
Probe ==
    /\ probe_result = ""
    /\ probe_result' = detect_test_framework(probe_repo)
    /\ UNCHANGED probe_repo
    /\ UNCHANGED <<pipeVars, brokerVars, labelVars, classifierVars, runsVars,
                   sinkVars, scoreVars, parserVars, applyVars>>

ProbeInit ==
    /\ PipeInit /\ max_retries = 0
    /\ BrokerQuiet /\ LabelsOfRun
    /\ ClassifierQuiet /\ RunsStarted /\ SinkIdle /\ ScoreQuiet
    /\ ParserQuiet /\ ApplyQuiet
    /\ probe_repo \in ProbeRepos
    /\ probe_result = ""

ProbeNext == Probe

ProbeSpec == ProbeInit /\ [][ProbeNext]_vars

\* The detection order as stated: a config file at the root, then a
\* dependency on jest, mocha or vitest in the manifest, then the test
\* files, then pytest.
StatedProbe(repo) ==
    LET by_config == FirstConfig(FrameworkFiles, repo)
        by_dep == IF repo.package_json = "object"
                  THEN FirstDep(<<"jest", "mocha", "vitest">>, repo.deps)
                  ELSE ""
    IN  IF by_config /= "" THEN by_config
        ELSE IF by_dep /= "" THEN by_dep
        ELSE IF repo.py_tests THEN "pytest"
        ELSE IF repo.js_tests THEN "jest"
        ELSE IF repo.go_tests THEN "go_test"
        ELSE "pytest"

\* C35: the probe of any repository returns one of the seven framework
\* identifiers, the one the stated detection order gives.
C35_ProbeReturnsByStatedPriority ==
    probe_result /= "" =>
        /\ probe_result \in Frameworks
        /\ probe_result = StatedProbe(probe_repo)

====
